---------------------------- MODULE Spec2Model ----------------------------
(***************************************************************************)
(* A model of the zulu training / inference pipeline:                      *)
(*   - train.main   (src/train.py)   : the epoch loop, validation,         *)
(*                                     scheduler, loss files, checkpoints  *)
(*   - the datasets (src/datasets.py): directory walk, manifest join,      *)
(*                                     class weights, __getitem__          *)
(*   - predict.py   (src/predict.py) : module import and main              *)
(* The specifications share the variables: Spec (train.main) and FairSpec  *)
(* (Spec with fairness), SpecData (the dataset classes) and SpecPredict    *)
(* (predict.py).                                                           *)
(***************************************************************************)
EXTENDS Integers, Sequences, FiniteSets, TLC

VARIABLES
    cfg,              \* train.main: the parsed arguments and what they select
    loaders,          \* train.main: num_train, num_validation and the DataLoaders
    pc,               \* train.main: position in main
    epoch,            \* train.main: loop variable of `for epoch in range(...)`
    bi,               \* train.main: batches consumed from the loader being iterated
    train_loss,       \* train.main: local train_loss
    validation_loss,  \* train.main: local validation_loss
    metrics,          \* train.main: local metrics (unbound until first assigned)
    trace,            \* train.main: the calls made so far, in order
    saved,            \* train.main: torch.save calls, in order
    train_lines,      \* train.main: lines of the train-loss file
    val_lines,        \* train.main: lines of the validation-loss file
    err,              \* train.main: the exception that ended main, or "none"
    world,            \* datasets: the directory tree and manifest on disk
    ds,               \* datasets: the constructed dataset object
    item,             \* datasets: the result of the last __getitem__ call
    prun              \* predict.py: the inputs and the outcome of one run

trainVars == <<cfg, loaders, pc, epoch, bi, train_loss, validation_loss, metrics, trace,
               saved, train_lines, val_lines, err>>
otherVars == <<world, ds, item, prun>>
vars == <<cfg, loaders, pc, epoch, bi, train_loss, validation_loss, metrics, trace,
          saved, train_lines, val_lines, err, world, ds, item, prun>>

---------------------------------------------------------------------------
(* Bounds of the model *)

MaxEpochs == 2
MaxSaveEvery == 2
MaxLen == 3
BatchSize == 1

---------------------------------------------------------------------------
(* Generic helpers *)

Min(a, b) == IF a <= b THEN a ELSE b

\* Python's a % b for b /= 0: the result has the sign of b.
PyMod(a, b) ==
    IF b > 0 THEN a % b
    ELSE LET r == a % (0 - b) IN IF r = 0 THEN 0 ELSE r + b

\* Python's tuple indexing shape[axis]; -1 stands for IndexError.
ShapeAt(shape, axis) ==
    IF axis >= 0 /\ axis < Len(shape) THEN shape[axis + 1]
    ELSE IF axis < 0 /\ axis >= 0 - Len(shape) THEN shape[Len(shape) + axis + 1]
    ELSE -1

---------------------------------------------------------------------------
(* Binary floating point: the arithmetic of Python floats and torch.float32 *)

\* The significand widths of a Python float (IEEE 754 binary64) and of a
\* torch.float32 tensor element.
DoublePrecision == 53
SinglePrecision == 24

\* A natural number is the sequence of its digits to the base 2^LimbBits, least
\* significant first, its last digit not 0; <<>> is zero. An operand or an
\* intermediate result that is used more than once is bound to its value first
\* (CHOOSE r \in { ... : a \in {a0} } : TRUE), so that it is worked out once
\* however the formula is evaluated.
LimbBits == 15
Base == 2^LimbBits

SetMax(S) == CHOOSE x \in S : \A y \in S : y <= x
SetMin(S) == CHOOSE x \in S : \A y \in S : x <= y

BNorm(a0) ==
    CHOOSE r \in { IF nz = {} THEN <<>> ELSE SubSeq(a, 1, SetMax(nz)) :
                      <<a, nz>> \in { <<b, { i \in DOMAIN b : b[i] /= 0 }>> : b \in {a0} } } : TRUE

\* For 0 <= n < 2^31.
BFromInt(n) == BNorm(<< n % Base, (n \div Base) % Base, n \div (Base * Base) >>)

LimbAt(a, i) == IF i \in DOMAIN a THEN a[i] ELSE 0

\* a + b + c from digit i on.
RECURSIVE BAddFrom(_, _, _, _)
BAddFrom(a, b, i, c) ==
    IF i > Len(a) /\ i > Len(b) THEN (IF c = 0 THEN <<>> ELSE <<c>>)
    ELSE LET s == LimbAt(a, i) + LimbAt(b, i) + c
         IN <<s % Base>> \o BAddFrom(a, b, i + 1, s \div Base)

BAdd(a, b) == BAddFrom(a, b, 1, 0)

\* a - b - borrow from digit i on, for a >= b.
RECURSIVE BSubFrom(_, _, _, _)
BSubFrom(a, b, i, borrow) ==
    IF i > Len(a) THEN <<>>
    ELSE LET d == a[i] - LimbAt(b, i) - borrow
         IN IF d < 0 THEN <<d + Base>> \o BSubFrom(a, b, i + 1, 1)
            ELSE <<d>> \o BSubFrom(a, b, i + 1, 0)

BSub(a, b) == BNorm(BSubFrom(a, b, 1, 0))

\* -1, 0 or 1 as a < b, a = b or a > b.
BCmp(a0, b0) ==
    CHOOSE r \in {
        IF Len(a) /= Len(b) THEN (IF Len(a) < Len(b) THEN -1 ELSE 1)
        ELSE LET diff == { i \in DOMAIN a : a[i] /= b[i] }
             IN IF diff = {} THEN 0
                ELSE IF a[SetMax(diff)] < b[SetMax(diff)] THEN -1 ELSE 1 :
        a \in {a0}, b \in {b0} } : TRUE

\* a * k + c from digit i on, for 0 <= k < 2^LimbBits.
RECURSIVE BMulFrom(_, _, _, _)
BMulFrom(a, k, i, c) ==
    IF i > Len(a) THEN (IF c = 0 THEN <<>> ELSE <<c>>)
    ELSE LET s == a[i] * k + c
         IN <<s % Base>> \o BMulFrom(a, k, i + 1, s \div Base)

BMulSmall(a, k) == BNorm(BMulFrom(a, k, 1, 0))

\* a * k for 0 <= k < 2^30.
BMul(a, k) ==
    BAdd(BMulSmall(a, k % Base),
         IF k \div Base = 0 THEN <<>> ELSE <<0>> \o BMulSmall(a, k \div Base))

\* a * 2^n
BShl(a, n0) ==
    CHOOSE r \in { IF shifted = <<>> THEN <<>>
                   ELSE [i \in 1..(n \div LimbBits) |-> 0] \o shifted :
                      <<n, shifted>> \in { <<m, BMulSmall(a, 2^(m % LimbBits))>> : m \in {n0} } } : TRUE

\* floor(a / 2^n)
BShr(a0, n0) ==
    CHOOSE r \in {
        LET q == n \div LimbBits
            s == n % LimbBits
        IN BNorm([i \in 1..(Len(a) - q) |->
                     (a[i + q] \div 2^s) + (LimbAt(a, i + q + 1) % 2^s) * 2^(LimbBits - s)]) :
        a \in {a0}, n \in {n0} } : TRUE

\* a is a multiple of 2^n.
BDivisible(a, n) ==
    /\ \A i \in 1..(n \div LimbBits) : LimbAt(a, i) = 0
    /\ LimbAt(a, n \div LimbBits + 1) % 2^(n % LimbBits) = 0

\* Bit i of a, bit 1 being the least significant.
BBit(a, i) == (LimbAt(a, (i - 1) \div LimbBits + 1) \div 2^((i - 1) % LimbBits)) % 2

\* The number of bits of a.
BitLen(a0) ==
    CHOOSE r \in {
        IF a = <<>> THEN 0
        ELSE (Len(a) - 1) * LimbBits
             + SetMin({ n \in 1..LimbBits : a[Len(a)] < 2^n }) :
        a \in {a0} } : TRUE

\* The number of zero bits below the lowest 1 of a /= 0.
TrailingZeros(a0) ==
    CHOOSE r \in { SetMin({ i \in 1..BitLen(a) : BBit(a, i) = 1 }) - 1 : a \in {a0} } : TRUE

\* floor((r * Base^Len(a) + a) / d) and the remainder, for 0 <= r < d < 2^LimbBits.
RECURSIVE BDivFrom(_, _, _, _)
BDivFrom(a, d, i, r) ==
    IF i = 0 THEN [q |-> <<>>, r |-> r]
    ELSE CHOOSE res \in { [q |-> Append(rest.q, cur \div d), r |-> rest.r] :
                             <<cur, rest>> \in { <<c, BDivFrom(a, d, i - 1, c % d)>> :
                                                    c \in {r * Base + a[i]} } } : TRUE

BDivSmall(a0, d) ==
    CHOOSE r \in { [q |-> BNorm(res.q), r |-> res.r] :
                      res \in { BDivFrom(a, d, Len(a), 0) : a \in {a0} } } : TRUE

\* The number m * 2^e, exactly.
Dyadic(m, e) == [m |-> m, e |-> e]

\* The one representation of a value: m odd, or m and e zero.
Canon(d0) ==
    CHOOSE r \in {
        IF d.m = <<>> THEN Dyadic(<<>>, 0)
        ELSE CHOOSE c \in { Dyadic(BShr(d.m, z), d.e + z) : z \in {TrailingZeros(d.m)} } : TRUE :
        d \in {d0} } : TRUE

DFromInt(n) == Canon(Dyadic(BFromInt(n), 0))

\* The significand of d at the exponent e <= d.e.
AtExponent(d, e) == BShl(d.m, d.e - e)

DCmp(a0, b0) ==
    CHOOSE r \in { LET e == Min(a.e, b.e) IN BCmp(AtExponent(a, e), AtExponent(b, e)) :
                      a \in {a0}, b \in {b0} } : TRUE

DLeq(a, b) == DCmp(a, b) <= 0

DAdd(a0, b0) ==
    CHOOSE r \in { LET e == Min(a.e, b.e) IN Dyadic(BAdd(AtExponent(a, e), AtExponent(b, e)), e) :
                      a \in {a0}, b \in {b0} } : TRUE

\* a - b for a >= b
DSub(a0, b0) ==
    CHOOSE r \in { LET e == Min(a.e, b.e) IN Dyadic(BSub(AtExponent(a, e), AtExponent(b, e)), e) :
                      a \in {a0}, b \in {b0} } : TRUE

\* |a - b|
DDist(a0, b0) ==
    CHOOSE r \in { IF DLeq(a, b) THEN DSub(b, a) ELSE DSub(a, b) : a \in {a0}, b \in {b0} } : TRUE

\* d * k for 0 <= k < 2^30
DMulInt(d, k) == Dyadic(BMul(d.m, k), d.e)

\* Rounding to p significant bits, to nearest, ties to even. The values of the
\* model lie far inside the exponent range of both formats.
RoundTo(d0, p) ==
    CHOOSE r \in {
        IF k <= 0 THEN Canon(d)
        ELSE CHOOSE c \in {
                 LET up == /\ BBit(d.m, k) = 1
                           /\ (~BDivisible(d.m, k - 1) \/ BBit(kept, 1) = 1)
                 IN Canon(Dyadic(IF up THEN BAdd(kept, <<1>>) ELSE kept, d.e + k)) :
                 kept \in {BShr(d.m, k)} } : TRUE :
        <<d, k>> \in { <<x, BitLen(x.m) - p>> : x \in {d0} } } : TRUE

\* n / d cut off after enough bits to round it to a double, with one more bit
\* below them that tells whether anything was cut off; 0 < d < 2^LimbBits.
Quotient(n, d) ==
    CHOOSE r \in {
        Dyadic(BAdd(BShl(res.q, 1), IF res.r = 0 THEN <<>> ELSE <<1>>), 0 - (k + 1)) :
        <<k, res>> \in { <<j, BDivSmall(BShl(BFromInt(n), j), d)>> :
                           j \in {DoublePrecision + 1 + BitLen(BFromInt(d))} } } : TRUE

\* Python's n / d for ints n >= 0 and d > 0.
FloatDiv(n, d) == RoundTo(Quotient(n, d), DoublePrecision)

\* Python's a - b and a + b for floats a >= b >= 0.
FloatSub(a, b) == RoundTo(DSub(a, b), DoublePrecision)
FloatAdd(a, b) == RoundTo(DAdd(a, b), DoublePrecision)

\* Python's k * f for an int k >= 0 and a float f >= 0.
FloatMulInt(k, f) == RoundTo(DMulInt(f, k), DoublePrecision)

\* The element torch.tensor stores for a Python float.
ToFloat32(f) == RoundTo(f, SinglePrecision)

\* Python's int(f) for a float 0 <= f < 2^30: the digits after the point are
\* cut off.
IntOf(f0) ==
    CHOOSE r \in { LimbAt(whole, 1) + LimbAt(whole, 2) * Base :
                      whole \in { IF f.e >= 0 THEN BShl(f.m, f.e) ELSE BShr(f.m, 0 - f.e) :
                                     f \in {f0} } } : TRUE

---------------------------------------------------------------------------
(* train.main: inputs *)

DEFAULT_CHANNEL_AXIS == 1
INPUT_SIDE == 224

\* The shape of X of one item of a dataset: EurosatDataset returns
\* image[bands] (bands x H x W), XYZTileDataset and the detection datasets the
\* ToTensor of a resized RGB image (3 x 224 x 224), and ConvLSTMCDataset
\* torch.stack(image_arrays, 0) of its frames (frames x 3 x 224 x 224).
ItemShape(dataset, frames, channels) ==
    CASE dataset = "EurosatDataset" -> <<channels, 64, 64>>
      [] dataset = "ConvLSTMCDataset" -> <<frames, channels, INPUT_SIDE, INPUT_SIDE>>
      [] OTHER -> <<channels, INPUT_SIDE, INPUT_SIDE>>

\* A dataset whose items hold `frames` images of `channels` channels each, a
\* model built for model_num_channels channels, and --channel-axis.
ShapeCase(dataset, frames, channels, model_num_channels, channel_axis, detector) ==
    [dataset |-> dataset, item_shape |-> ItemShape(dataset, frames, channels),
     frames |-> frames, channels |-> channels,
     model_num_channels |-> model_num_channels, channel_axis |-> channel_axis,
     detector |-> detector]

\* What the selected dataset yields per item and what the selected model expects.
ShapeCases ==
    { ShapeCase("EurosatDataset", 1, 4, 4, DEFAULT_CHANNEL_AXIS, FALSE),
      ShapeCase("XYZTileDataset", 1, 3, 3, DEFAULT_CHANNEL_AXIS, FALSE),
      ShapeCase("XYZTileDataset", 1, 3, 4, DEFAULT_CHANNEL_AXIS, FALSE),
      ShapeCase("XYZTileDataset", 1, 3, 3, 4, FALSE),
      ShapeCase("ConvLSTMCDataset", 2, 3, 3, DEFAULT_CHANNEL_AXIS, FALSE),
      ShapeCase("ConvLSTMCDataset", 3, 3, 3, DEFAULT_CHANNEL_AXIS, FALSE),
      ShapeCase("ConvLSTMCDataset", 2, 3, 3, 2, FALSE),
      ShapeCase("XYZObjectDetectionDatasetTwo", 1, 3, 3, DEFAULT_CHANNEL_AXIS, TRUE) }

\* --scheduler / --scheduler-metric: whether a scheduler is used, whether its
\* step() takes a metric, and the key looked up in metrics.
SchedulerCases ==
    { [use_scheduler |-> FALSE, requires_metrics |-> FALSE, scheduler_metric |-> "validation_loss"],
      [use_scheduler |-> TRUE, requires_metrics |-> FALSE, scheduler_metric |-> "validation_loss"],
      [use_scheduler |-> TRUE, requires_metrics |-> TRUE, scheduler_metric |-> "validation_loss"],
      [use_scheduler |-> TRUE, requires_metrics |-> TRUE, scheduler_metric |-> "mAP"] }

\* --validation / --val-percent: the float argparse makes of the decimal
\* numerator / 100.
ValidationCase(validation, numerator) ==
    [validation |-> validation, val_percent |-> FloatDiv(numerator, 100)]

ValidationCases ==
    { ValidationCase(FALSE, 15), ValidationCase(TRUE, 15), ValidationCase(TRUE, 50),
      ValidationCase(TRUE, 100) }

\* More values of --val-percent, for the runs that vary what main does before
\* the loop.
SplitCases ==
    ValidationCases \cup { ValidationCase(TRUE, 0), ValidationCase(TRUE, 60) }

\* --model-filepath given or not, --use-class-weights, --shuffle, and --seed
\* (which of the permutations the seeded generator produces).
Options ==
    [ model_filepath : BOOLEAN, use_class_weights : BOOLEAN, shuffle : BOOLEAN,
      seed : 0..2 ]

\* The defaults: no --model-filepath, no class weights, shuffling.
DefaultOptions ==
    [model_filepath |-> FALSE, use_class_weights |-> FALSE, shuffle |-> TRUE, seed |-> 0]

\* The runs that vary the loop: epochs, checkpoints, loss files, shapes,
\* schedulers and validation, with the default options.
LoopConfigs ==
    [ num_epochs : 0..MaxEpochs,
      save_model : BOOLEAN,
      save_every : 0..MaxSaveEvery,
      save_losses : BOOLEAN,
      dataset_len : 0..MaxLen,
      shape : ShapeCases,
      sched : SchedulerCases,
      val : ValidationCases,
      opts : { DefaultOptions } ]

\* The runs that vary what main does before the loop: the split, the loaders
\* and the optional log lines, over one epoch.
SetupConfigs ==
    [ num_epochs : { 1 },
      save_model : { FALSE },
      save_every : { 1 },
      save_losses : { TRUE },
      dataset_len : 0..MaxLen \cup { 5 },
      shape : { ShapeCase("EurosatDataset", 1, 4, 4, DEFAULT_CHANNEL_AXIS, FALSE),
                ShapeCase("XYZObjectDetectionDatasetTwo", 1, 3, 3, DEFAULT_CHANNEL_AXIS, TRUE) },
      sched : { [use_scheduler |-> FALSE, requires_metrics |-> FALSE,
                 scheduler_metric |-> "validation_loss"] },
      val : SplitCases,
      opts : Options ]

Configs == LoopConfigs \cup SetupConfigs

---------------------------------------------------------------------------
(* train.main: pure parts *)

\* A variant that rounds len(dataset) * val_percent up.
NumValidation_RoundedUp(c) ==
    IF c.val.validation
    THEN LET product == FloatMulInt(c.dataset_len, c.val.val_percent)
         IN IF DFromInt(IntOf(product)) = product THEN IntOf(product)
            ELSE IntOf(product) + 1
    ELSE 0

\* Lines 275-286: num_validation = int(len(dataset) * val_percent), or 0.
NumValidation(c) ==
    IF c.val.validation THEN IntOf(FloatMulInt(c.dataset_len, c.val.val_percent)) ELSE 0

\* torch.randperm(n, generator=...): a permutation of 0..n-1 that the seed
\* determines; the model takes the identity, the reversal and a rotation.
randperm(n, seed) ==
    CASE seed = 0 -> [i \in 1..n |-> i - 1]
      [] seed = 1 -> [i \in 1..n |-> n - i]
      [] OTHER -> [i \in 1..n |-> i % n]

\* A variant whose second subset starts again at the first index.
random_split_Overlapping(n, lengths0, seed) ==
    CHOOSE subsets \in {
        << SubSeq(indices, 1, lengths[1]), SubSeq(indices, 1, lengths[2]) >> :
        indices \in {randperm(n, seed)}, lengths \in {lengths0} } : TRUE

\* torch.utils.data.random_split(dataset, lengths, generator): consecutive
\* slices of a random permutation of the indices; sum(lengths) = n here.
random_split(n, lengths0, seed) ==
    CHOOSE subsets \in {
        << SubSeq(indices, 1, lengths[1]),
           SubSeq(indices, lengths[1] + 1, lengths[1] + lengths[2]) >> :
        indices \in {randperm(n, seed)}, lengths \in {lengths0} } : TRUE

\* Lines 275-286: the indices of the dataset that train_set and validation_set
\* hold; without --validation train_set is the dataset and there is no
\* validation_set.
Subsets(c, num_validation) ==
    IF c.val.validation
    THEN random_split(c.dataset_len, << c.dataset_len - num_validation, num_validation >>,
                      c.opts.seed)
    ELSE << [i \in 1..c.dataset_len |-> i - 1], <<>> >>

\* Lines 291-313: the arguments the two DataLoaders are built with.
DataLoader(dataset, shuffle, collate) ==
    [dataset |-> dataset, shuffle |-> shuffle, batch_size |-> BatchSize,
     collate_fn |-> collate]

\* A loader that was never built.
NoLoader == [dataset |-> <<>>, shuffle |-> FALSE, batch_size |-> 0, collate_fn |-> FALSE]

NoLoaders ==
    [num_train |-> 0, num_validation |-> 0, train_loader |-> NoLoader,
     validation_loader |-> NoLoader]

\* Lines 275-313: the locals num_train, num_validation, train_loader and
\* validation_loader (built under `if validation:` only).
Loaders(c) ==
    CHOOSE l \in {
        [num_train |-> c.dataset_len - num_validation,
         num_validation |-> num_validation,
         train_loader |-> DataLoader(subsets[1], c.opts.shuffle, c.shape.detector),
         validation_loader |-> IF c.val.validation
                               THEN DataLoader(subsets[2], FALSE, c.shape.detector)
                               ELSE NoLoader] :
        <<num_validation, subsets>> \in
            { <<v, Subsets(c, v)>> : v \in {NumValidation(c)} } } : TRUE

\* The sizes of the batches a DataLoader yields over n samples.
RECURSIVE BatchSizes(_)
BatchSizes(n) ==
    IF n <= 0 THEN <<>> ELSE <<Min(n, BatchSize)>> \o BatchSizes(n - BatchSize)

TrainBatches(l) == BatchSizes(Len(l.train_loader.dataset))
ValBatches(l) == BatchSizes(Len(l.validation_loader.dataset))

\* The shape of batch["X"] for a batch of b items (default collate stacks on axis 0).
BatchShape(c, b) == <<b>> \o c.shape.item_shape

\* loss.item() of batch b of epoch e: a float that differs between epochs and
\* batches (0.1, 0.2, 0.3 in the first epoch).
TrainLossOf(e, b) == FloatDiv(b, 10 * e)
ValLossOf(e, b) == FloatDiv(b + 3, 10 * e)
DetectorLossOf(e) == FloatDiv(7, 10 * e)

\* A variant that keeps what the accumulator held.
ZeroLoss_Carried(carried) == carried

\* `train_loss = 0.0` (line 381) and `validation_loss = 0.0` (line 412): the
\* value an accumulator starts an epoch with, whatever it held before.
ZeroLoss(carried) == DFromInt(0)

\* The keys of the dict calc_metrics returns, then "validation_loss" is added.
ClassifierMetricKeys == {"calc_metrics", "validation_loss"}
DetectorMetricKeys == {"mAP"}

\* The decimal digits of n >= 0, most significant first.
RECURSIVE Digits(_)
Digits(n) == IF n < 10 THEN <<n>> ELSE Digits(n \div 10) \o <<n % 10>>

\* f"{epoch:04}": zero-padded to at least four digits.
RECURSIVE PadLeft(_, _)
PadLeft(d, w) == IF Len(d) >= w THEN d ELSE PadLeft(<<0>> \o d, w)

\* f"checkpoint_epoch_{epoch:04}.pth"
CheckpointName(e) == <<"checkpoint_epoch_">> \o PadLeft(Digits(e), 4) \o <<".pth">>

\* The condition of `if (save_model and epoch % save_every == 0) or epoch == num_epochs`.
\* "ZeroDivisionError" when the modulus is evaluated with save_every = 0.
CheckpointDecision(c, e) ==
    IF c.save_model
    THEN IF c.save_every = 0 THEN "ZeroDivisionError"
         ELSE IF PyMod(e, c.save_every) = 0 \/ e = c.num_epochs THEN "save" ELSE "skip"
    ELSE IF e = c.num_epochs THEN "save" ELSE "skip"

\* A variant with the off-by-one range(1, num_epochs).
EpochRange_Short(c) == 1..(c.num_epochs - 1)

\* range(1, num_epochs + 1)
EpochRange(c) == 1..c.num_epochs

\* A variant that appends the losses before stepping the scheduler.
NextPhase_LossesFirst(p) ==
    CASE p = "train" -> "validate"
      [] p = "validate" -> "losses"
      [] p = "losses" -> "sched"
      [] p = "sched" -> "ckpt"
      [] p = "ckpt" -> "loop"
      [] OTHER -> "loop"

\* The order of the statements of the loop body: the phase that follows phase p.
NextPhase(p) ==
    CASE p = "train" -> "validate"
      [] p = "validate" -> "sched"
      [] p = "sched" -> "losses"
      [] p = "losses" -> "ckpt"
      [] p = "ckpt" -> "loop"
      [] OTHER -> "loop"

\* A call main makes: its name, the epoch and, inside a batch loop, the loop
\* ("train" or "val") and the batch number.
Event(name, e, b) == [ev |-> name, epoch |-> e, b |-> b, loop |-> "main"]
BatchEvent(loop, name, e, b) == [ev |-> name, epoch |-> e, b |-> b, loop |-> loop]

Crash(name) ==
    /\ pc' = "crashed"
    /\ err' = name

---------------------------------------------------------------------------
(* train.main: the state machine *)

NoMetrics == [bound |-> FALSE, keys |-> {}, epoch |-> 0]

InitTrain ==
    /\ cfg \in Configs
    /\ loaders = NoLoaders
    /\ pc = "start"
    /\ epoch = 0
    /\ bi = 0
    /\ train_loss = DFromInt(0)
    /\ validation_loss = DFromInt(0)
    /\ metrics = NoMetrics
    /\ trace = <<>>
    /\ saved = <<>>
    /\ train_lines = <<>>
    /\ val_lines = <<>>
    /\ err = "none"

\* A variant with the logging.info of line 255 not commented out.
SetupEvents_LogDevice(c) ==
    << Event("parse_args", 0, 0), Event("logging.info", 0, 0),
       Event("get_args", 0, 0), Event("logging.info", 0, 0),
       Event("logging.info", 0, 0), Event("logging.info", 0, 0) >>

\* The calls of lines 211-370 in the order main makes them: parse_args (211),
\* random_split (279), the DataLoaders (292-313), get_args (331), the log of
\* the device (337), the checkpoint loaded from --model-filepath and its log
\* (339-341), the log of the sample counts (343), the log of the class weights
\* (357) and "Starting training..." (370).
SetupEvents(c) ==
    << Event("parse_args", 0, 0) >>
    \o (IF c.val.validation THEN << Event("random_split", 0, 0) >> ELSE <<>>)
    \o << Event("DataLoader", 0, 0) >>
    \o (IF c.val.validation THEN << Event("DataLoader", 0, 0) >> ELSE <<>>)
    \o << Event("get_args", 0, 0), Event("logging.info", 0, 0) >>
    \o (IF c.opts.model_filepath
        THEN << Event("load_state_dict", 0, 0), Event("logging.info", 0, 0) >>
        ELSE <<>>)
    \o << Event("logging.info", 0, 0) >>
    \o (IF c.opts.use_class_weights THEN << Event("logging.info", 0, 0) >> ELSE <<>>)
    \o << Event("logging.info", 0, 0) >>

\* Lines 211-370: everything main does before the loop.
Setup ==
    /\ pc = "start"
    /\ pc' = "loop"
    /\ loaders' = Loaders(cfg)
    /\ trace' = trace \o SetupEvents(cfg)
    /\ UNCHANGED <<cfg, epoch, bi, train_loss, validation_loss, metrics, saved,
                   train_lines, val_lines, err>>
    /\ UNCHANGED otherVars

\* Lines 371-381: the loop takes the next epoch and the training phase begins.
StartEpoch ==
    /\ pc = "loop"
    /\ epoch + 1 \in EpochRange(cfg)
    /\ epoch' = epoch + 1
    /\ pc' = "train"
    /\ bi' = 0
    /\ train_loss' = IF cfg.shape.detector THEN train_loss ELSE ZeroLoss(train_loss)
    /\ trace' = trace \o << Event("epoch_start", epoch + 1, 0),
                            Event("logging.info", epoch + 1, 0) >>
    /\ UNCHANGED <<cfg, loaders, validation_loss, metrics, saved, train_lines, val_lines, err>>
    /\ UNCHANGED otherVars

\* Lines 373-378: an object detector trains through detection.train_one_epoch.
TrainOneEpoch ==
    /\ pc = "train"
    /\ cfg.shape.detector
    /\ train_loss' = DetectorLossOf(epoch)
    /\ trace' = Append(trace, Event("train_one_epoch", epoch, 0))
    /\ pc' = NextPhase("train")
    /\ UNCHANGED <<cfg, loaders, epoch, bi, validation_loss, metrics, saved, train_lines,
                   val_lines, err>>
    /\ UNCHANGED otherVars

\* A variant that runs the forward pass before the assertion.
TrainBatchEvents_AssertLate(c, e, b, n) ==
    IF n = -1 THEN << BatchEvent("train", "IndexError", e, b) >>
    ELSE IF n /= c.shape.model_num_channels
    THEN << BatchEvent("train", "zero_grad", e, b), BatchEvent("train", "forward", e, b), BatchEvent("train", "AssertionError", e, b) >>
    ELSE << BatchEvent("train", "zero_grad", e, b), BatchEvent("train", "forward", e, b), BatchEvent("train", "assert_ok", e, b),
            BatchEvent("train", "backward", e, b), BatchEvent("train", "optimizer_step", e, b) >>

\* The events of one iteration of the training loop body (lines 383-402) on a
\* batch whose X has n channels on the channel axis.
TrainBatchEvents(c, e, b, n) ==
    IF n = -1 THEN << BatchEvent("train", "IndexError", e, b) >>
    ELSE IF n /= c.shape.model_num_channels THEN << BatchEvent("train", "AssertionError", e, b) >>
    ELSE << BatchEvent("train", "assert_ok", e, b), BatchEvent("train", "zero_grad", e, b), BatchEvent("train", "forward", e, b),
            BatchEvent("train", "backward", e, b), BatchEvent("train", "optimizer_step", e, b) >>

\* Lines 382-402: one iteration of `for batch in train_loader`.
TrainBatch ==
    /\ pc = "train"
    /\ ~cfg.shape.detector
    /\ bi < Len(TrainBatches(loaders))
    /\ LET b == bi + 1
           n == ShapeAt(BatchShape(cfg, TrainBatches(loaders)[b]), cfg.shape.channel_axis)
           evs == TrainBatchEvents(cfg, epoch, b, n)
       IN /\ trace' = trace \o evs
          /\ IF evs[Len(evs)].ev = "optimizer_step"
             THEN /\ train_loss' = FloatAdd(train_loss, TrainLossOf(epoch, b))
                  /\ bi' = b
                  /\ UNCHANGED <<pc, err>>
             ELSE /\ Crash(evs[Len(evs)].ev)
                  /\ UNCHANGED <<train_loss, bi>>
    /\ UNCHANGED <<cfg, loaders, epoch, validation_loss, metrics, saved, train_lines, val_lines>>
    /\ UNCHANGED otherVars

\* The train loader is exhausted.
EndTrainLoop ==
    /\ pc = "train"
    /\ ~cfg.shape.detector
    /\ bi = Len(TrainBatches(loaders))
    /\ pc' = NextPhase("train")
    /\ UNCHANGED <<cfg, loaders, epoch, bi, train_loss, validation_loss, metrics, trace, saved,
                   train_lines, val_lines, err>>
    /\ UNCHANGED otherVars

\* Lines 404-413 (and 424): the log after training, validation_loss = 0.0 and
\* the `if validation:` branch.
BeginValidation ==
    /\ pc = "validate"
    /\ validation_loss' = ZeroLoss(validation_loss)
    /\ bi' = 0
    /\ trace' = Append(trace, Event("logging.info", epoch, 0))
    /\ pc' = IF ~cfg.val.validation THEN NextPhase("validate")
             ELSE IF cfg.shape.detector THEN "evaluate" ELSE "val_loop"
    /\ UNCHANGED <<cfg, loaders, epoch, train_loss, metrics, saved, train_lines, val_lines, err>>
    /\ UNCHANGED otherVars

\* Lines 414-422: an object detector validates through detection.evaluate.
Evaluate ==
    /\ pc = "evaluate"
    /\ metrics' = [bound |-> TRUE, keys |-> DetectorMetricKeys, epoch |-> epoch]
    /\ trace' = Append(trace, Event("evaluate", epoch, 0))
    /\ pc' = NextPhase("validate")
    /\ UNCHANGED <<cfg, loaders, epoch, bi, train_loss, validation_loss, saved, train_lines,
                   val_lines, err>>
    /\ UNCHANGED otherVars

\* The events of one iteration of the validation loop body (lines 426-451).
ValBatchEvents(c, e, b, n) ==
    IF n = -1 THEN << BatchEvent("val", "IndexError", e, b) >>
    ELSE IF n /= c.shape.model_num_channels THEN << BatchEvent("val", "AssertionError", e, b) >>
    ELSE << BatchEvent("val", "assert_ok", e, b), BatchEvent("val", "forward", e, b),
            BatchEvent("val", "calc_metrics", e, b) >>

\* Lines 425-464: one iteration of `for batch in validation_loader`.
ValBatch ==
    /\ pc = "val_loop"
    /\ bi < Len(ValBatches(loaders))
    /\ LET b == bi + 1
           n == ShapeAt(BatchShape(cfg, ValBatches(loaders)[b]), cfg.shape.channel_axis)
           evs == ValBatchEvents(cfg, epoch, b, n)
       IN /\ trace' = trace \o evs
          /\ IF evs[Len(evs)].ev = "calc_metrics"
             THEN /\ validation_loss' = FloatAdd(validation_loss, ValLossOf(epoch, b))
                  /\ metrics' = [bound |-> TRUE, keys |-> ClassifierMetricKeys,
                                 epoch |-> epoch]
                  /\ bi' = b
                  /\ UNCHANGED <<pc, err>>
             ELSE /\ Crash(evs[Len(evs)].ev)
                  /\ UNCHANGED <<validation_loss, metrics, bi>>
    /\ UNCHANGED <<cfg, loaders, epoch, train_loss, saved, train_lines, val_lines>>
    /\ UNCHANGED otherVars

\* The validation loader is exhausted.
EndValLoop ==
    /\ pc = "val_loop"
    /\ bi = Len(ValBatches(loaders))
    /\ pc' = NextPhase("validate")
    /\ UNCHANGED <<cfg, loaders, epoch, bi, train_loss, validation_loss, metrics, trace, saved,
                   train_lines, val_lines, err>>
    /\ UNCHANGED otherVars

\* What `metrics[scheduler_metric]` evaluates to on line 468.
MetricLookup(m, key) ==
    IF ~m.bound THEN "UnboundLocalError"
    ELSE IF key \notin m.keys THEN "KeyError"
    ELSE "ok"

\* Lines 466-470: the scheduler step.
SchedulerPhase ==
    /\ pc = "sched"
    /\ LET look == IF cfg.sched.use_scheduler /\ cfg.sched.requires_metrics
                   THEN MetricLookup(metrics, cfg.sched.scheduler_metric)
                   ELSE "ok"
       IN IF look /= "ok"
          THEN /\ Crash(look)
               /\ trace' = Append(trace, Event(look, epoch, 0))
          ELSE /\ pc' = NextPhase("sched")
               /\ err' = err
               /\ trace' = IF cfg.sched.use_scheduler
                           THEN Append(trace, Event("scheduler_step", epoch, 0))
                           ELSE trace
    /\ UNCHANGED <<cfg, loaders, epoch, bi, train_loss, validation_loss, metrics, saved,
                   train_lines, val_lines>>
    /\ UNCHANGED otherVars

\* Lines 472-486: the end-of-epoch log and the two loss files.
LossesPhase ==
    /\ pc = "losses"
    /\ pc' = NextPhase("losses")
    /\ IF cfg.save_losses
       THEN /\ train_lines' = Append(train_lines, train_loss)
            /\ val_lines' = Append(val_lines, validation_loss)
            /\ trace' = trace \o << Event("logging.info", epoch, 0),
                                    Event("append_losses", epoch, 0) >>
       ELSE /\ trace' = Append(trace, Event("logging.info", epoch, 0))
            /\ UNCHANGED <<train_lines, val_lines>>
    /\ UNCHANGED <<cfg, loaders, epoch, bi, train_loss, validation_loss, metrics, saved, err>>
    /\ UNCHANGED otherVars

\* Lines 488-492: the checkpoint decision.
CheckpointPhase ==
    /\ pc = "ckpt"
    /\ LET d == CheckpointDecision(cfg, epoch)
       IN CASE d = "save" ->
                 /\ saved' = Append(saved, [path |-> CheckpointName(epoch), epoch |-> epoch])
                 /\ trace' = trace \o << Event("ckpt_decision", epoch, 0),
                                         Event("torch.save", epoch, 0),
                                         Event("logging.info", epoch, 0) >>
                 /\ pc' = NextPhase("ckpt")
                 /\ err' = err
            [] d = "skip" ->
                 /\ trace' = Append(trace, Event("ckpt_decision", epoch, 0))
                 /\ pc' = NextPhase("ckpt")
                 /\ UNCHANGED <<saved, err>>
            [] OTHER ->
                 /\ Crash(d)
                 /\ trace' = Append(trace, Event(d, epoch, 0))
                 /\ UNCHANGED saved
    /\ UNCHANGED <<cfg, loaders, epoch, bi, train_loss, validation_loss, metrics, train_lines,
                   val_lines>>
    /\ UNCHANGED otherVars

\* Lines 493-501: the loop is exhausted and the final log is written.
Finish ==
    /\ pc = "loop"
    /\ epoch + 1 \notin EpochRange(cfg)
    /\ pc' = "done"
    /\ trace' = Append(trace, Event("done", epoch, 0))
    /\ UNCHANGED <<cfg, loaders, epoch, bi, train_loss, validation_loss, metrics, saved,
                   train_lines, val_lines, err>>
    /\ UNCHANGED otherVars





---------------------------------------------------------------------------
(* datasets.py: strings, paths and the directory tree *)

\* Strings are sequences of characters; Alphabet lists the characters used, in
\* code-point order, which is the order sorted() compares them in.
Alphabet == << ".", "/", "0", "1", "2", "3", "4", "5", "6", "7", "8", "9",
              "d", "e", "f", "i", "n", "p", "t", "x" >>

CharOrd(ch) == CHOOSE i \in 1..Len(Alphabet) : Alphabet[i] = ch

\* a < b for Python strings.
RECURSIVE StrLess(_, _)
StrLess(a, b) ==
    IF b = <<>> THEN FALSE
    ELSE IF a = <<>> THEN TRUE
    ELSE IF Head(a) = Head(b) THEN StrLess(Tail(a), Tail(b))
    ELSE CharOrd(Head(a)) < CharOrd(Head(b))

\* Insertion of x into the sorted list s, after the elements equal to it.
RECURSIVE InsertSorted(_, _)
InsertSorted(x, s) ==
    IF s = <<>> THEN <<x>>
    ELSE IF StrLess(x, Head(s)) THEN <<x>> \o s
    ELSE <<Head(s)>> \o InsertSorted(x, Tail(s))

\* A variant that leaves the filenames in the order of the directory listing.
sort_filenames_Unsorted(filenames) == filenames

\* sorted(filenames)
RECURSIVE sort_filenames(_)
sort_filenames(filenames) ==
    IF filenames = <<>> THEN <<>>
    ELSE InsertSorted(filenames[Len(filenames)],
                      sort_filenames(SubSeq(filenames, 1, Len(filenames) - 1)))

\* `key in dirpath` for strings.
IsSubstring(key, str) ==
    \E i \in 0..(Len(str) - Len(key)) : SubSeq(str, i + 1, i + Len(key)) = key

\* os.path.join(a, b) for a relative b, then .replace("\\", "/").
PathJoin(a, b) ==
    IF a = <<>> \/ a[Len(a)] = "/" THEN a \o b ELSE a \o <<"/">> \o b

\* The directory a path names: a trailing separator does not matter.
NormPath(path) ==
    IF Len(path) > 1 /\ path[Len(path)] = "/" THEN SubSeq(path, 1, Len(path) - 1) ELSE path

\* os.walk(top) over the tree t (a function from the path of each directory
\* that exists to its listing): top-down, each directory before its children,
\* the children in listing order; a top that is no directory yields nothing.
RECURSIVE Walk(_, _)
RECURSIVE WalkChildren(_, _, _)
Walk(t, top) ==
    IF NormPath(top) \notin DOMAIN t THEN <<>>
    ELSE << [dirpath |-> top, dirnames |-> t[NormPath(top)].dirnames,
             filenames |-> t[NormPath(top)].filenames] >>
         \o WalkChildren(t, top, t[NormPath(top)].dirnames)
WalkChildren(t, top, names) ==
    IF names = <<>> THEN <<>>
    ELSE Walk(t, PathJoin(top, Head(names))) \o WalkChildren(t, top, Tail(names))

\* Truthiness of a label read from the manifest.
Truthy(v) == v /= 0

Listing(dirnames, filenames) == [dirnames |-> dirnames, filenames |-> filenames]

\* The directory trees the datasets are built over. d is the data directory;
\* e is a directory beside it.
TreeTypical ==
    (<<"d">> :> Listing(<< <<"p">>, <<"n">> >>, <<>>))
    @@ (<<"d", "/", "p">> :> Listing(<<>>, << <<"2">>, <<"1", "0">>, <<"1">> >>))
    @@ (<<"d", "/", "n">> :> Listing(<<>>, << <<"1">> >>))
    @@ (<<"e">> :> Listing(<<>>, << <<"1">> >>))

TreeOverlap ==
    (<<"d">> :> Listing(<< <<"n">>, <<"p", "n">> >>, <<>>))
    @@ (<<"d", "/", "n">> :> Listing(<<>>, << <<"2">>, <<"1">> >>))
    @@ (<<"d", "/", "p", "n">> :> Listing(<<>>, << <<"1">> >>))

TreeRootLeaf ==
    (<<"d">> :> Listing(<<>>, << <<"1">>, <<"2">> >>))

TreeNested ==
    (<<"d">> :> Listing(<< <<"p">> >>, << <<"x">> >>))
    @@ (<<"d", "/", "p">> :> Listing(<< <<"n">>, <<"p">> >>, << <<"1">>, <<"2">> >>))
    @@ (<<"d", "/", "p", "/", "n">> :> Listing(<<>>, << <<"1">> >>))
    @@ (<<"d", "/", "p", "/", "p">> :> Listing(<<>>, << <<"2">>, <<"1">> >>))

TreeEmptyLeaf ==
    (<<"d">> :> Listing(<< <<"p">>, <<"n">> >>, <<>>))
    @@ (<<"d", "/", "p">> :> Listing(<<>>, << <<"1">>, <<"2">> >>))
    @@ (<<"d", "/", "n">> :> Listing(<<>>, <<>>))

TreeMissing ==
    (<<"e">> :> Listing(<<>>, << <<"1">> >>))

TreeSkewed ==
    (<<"d">> :> Listing(<< <<"p">>, <<"n">> >>, <<>>))
    @@ (<<"d", "/", "p">> :> Listing(<<>>, << <<"1">>, <<"2">> >>))
    @@ (<<"d", "/", "n">> :> Listing(<<>>, << <<"1">>, <<"2">>, <<"3">>, <<"4">>, <<"5">>,
                                             <<"6">>, <<"7">>, <<"8">>, <<"9">> >>))

Trees == {TreeTypical, TreeOverlap, TreeRootLeaf, TreeNested, TreeEmptyLeaf, TreeMissing,
          TreeSkewed}

Category(key, value) == [key |-> key, value |-> value]

\* The manifest of the typical data directory.
DetManifest ==
    [dir_path |-> <<"d">>,
     categories |-> << Category(<<"p">>, 1), Category(<<"n">>, 0) >>]

\* The manifests: dir_path and the categories in the order of the JSON object.
Manifests ==
    { DetManifest,
      [dir_path |-> <<"d">>,
       categories |-> << Category(<<"n">>, 0), Category(<<"p">>, 1), Category(<<"p", "n">>, 1) >>],
      [dir_path |-> <<"d", "/">>,
       categories |-> << Category(<<"d">>, 2) >>],
      [dir_path |-> <<"d">>,
       categories |-> << Category(<<"/", "p">>, 2), Category(<<"n">>, 0) >>],
      [dir_path |-> <<"d">>,
       categories |-> << Category(<<"x">>, 1) >>] }


---------------------------------------------------------------------------
(* datasets.py: XYZTileDataset and ConvLSTMCDataset *)

MAX_ANGLE == 30

\* A variant that takes every directory for a leaf.
IsLeafEntry_Always(entry) == TRUE

\* `if not dirnames:`
IsLeafEntry(entry) == entry.dirnames = <<>>

\* XYZTileDataset: the records of one directory and one category (lines 180-190).
FileRecords(dirpath, filenames, value) ==
    [i \in 1..Len(filenames) |->
        [dirpath |-> dirpath, filename |-> filenames[i], label |-> value]]

\* XYZTileDataset: lines 178-190 for one walked directory.
RECURSIVE XYZTileCategoryRecords(_, _)
XYZTileCategoryRecords(entry, cats) ==
    IF cats = <<>> THEN <<>>
    ELSE (IF IsSubstring(Head(cats).key, entry.dirpath)
          THEN FileRecords(entry.dirpath, entry.filenames, Head(cats).value)
          ELSE <<>>)
         \o XYZTileCategoryRecords(entry, Tail(cats))

\* XYZTileDataset: lines 176-190, the samples list.
RECURSIVE XYZTileSamples(_, _)
XYZTileSamples(entries, cats) ==
    IF entries = <<>> THEN <<>>
    ELSE (IF IsLeafEntry(Head(entries))
          THEN XYZTileCategoryRecords(Head(entries), cats)
          ELSE <<>>)
         \o XYZTileSamples(Tail(entries), cats)

\* ConvLSTMCDataset: lines 328-339 for one walked directory.
RECURSIVE ConvLSTMCCategoryRecords(_, _)
ConvLSTMCCategoryRecords(entry, cats) ==
    IF cats = <<>> THEN <<>>
    ELSE (IF IsSubstring(Head(cats).key, entry.dirpath)
          THEN << [dirpath |-> entry.dirpath, filenames |-> entry.filenames,
                   label |-> Head(cats).value] >>
          ELSE <<>>)
         \o ConvLSTMCCategoryRecords(entry, Tail(cats))

\* ConvLSTMCDataset: lines 326-339, the samples list.
RECURSIVE ConvLSTMCSamples(_, _)
ConvLSTMCSamples(entries, cats) ==
    IF entries = <<>> THEN <<>>
    ELSE (IF IsLeafEntry(Head(entries))
          THEN ConvLSTMCCategoryRecords(Head(entries), cats)
          ELSE <<>>)
         \o ConvLSTMCSamples(Tail(entries), cats)

\* The counter incremented beside every append: num_pos (truthy = TRUE) or
\* num_neg (truthy = FALSE). perFile: XYZTileDataset counts once per file,
\* ConvLSTMCDataset once per directory.
RECURSIVE CountCategory(_, _, _, _)
CountCategory(entry, cats, truthy, perFile) ==
    IF cats = <<>> THEN 0
    ELSE (IF IsSubstring(Head(cats).key, entry.dirpath) /\ Truthy(Head(cats).value) = truthy
          THEN (IF perFile THEN Len(entry.filenames) ELSE 1)
          ELSE 0)
         + CountCategory(entry, Tail(cats), truthy, perFile)

RECURSIVE CountLabels(_, _, _, _)
CountLabels(entries, cats, truthy, perFile) ==
    IF entries = <<>> THEN 0
    ELSE (IF IsLeafEntry(Head(entries))
          THEN CountCategory(Head(entries), cats, truthy, perFile)
          ELSE 0)
         + CountLabels(Tail(entries), cats, truthy, perFile)

\* A weight: the float value, or its square root when sqrt is set.
Weight(value, sqrt) == [value |-> value, sqrt |-> sqrt]

\* A variant with the two counts exchanged.
ClassWeights_Exchanged(num_pos, num_neg, use_sqrt_weights) ==
    IF num_neg + num_pos = 0 THEN <<>>
    ELSE << Weight(FloatSub(DFromInt(1), FloatDiv(num_pos, num_neg + num_pos)), use_sqrt_weights),
            Weight(FloatSub(DFromInt(1), FloatDiv(num_neg, num_neg + num_pos)), use_sqrt_weights) >>

\* Lines 191-196 and 340-345: [neg_class_weight, pos_class_weight]; the empty
\* tuple stands for the ZeroDivisionError of an empty dataset.
ClassWeights(num_pos, num_neg, use_sqrt_weights) ==
    IF num_neg + num_pos = 0 THEN <<>>
    ELSE << Weight(FloatSub(DFromInt(1), FloatDiv(num_neg, num_neg + num_pos)), use_sqrt_weights),
            Weight(FloatSub(DFromInt(1), FloatDiv(num_pos, num_neg + num_pos)), use_sqrt_weights) >>

\* The object a dataset constructor leaves behind, or the exception it raises.
Dataset(kind, samples, num_pos, num_neg, flags) ==
    LET cw == ClassWeights(num_pos, num_neg, flags.use_sqrt_weights)
    IN [kind |-> kind,
        status |-> IF cw = <<>> THEN "ZeroDivisionError" ELSE "ok",
        samples |-> samples,
        num_pos |-> num_pos,
        num_neg |-> num_neg,
        class_weights |-> cw,
        use_data_aug |-> flags.use_data_aug,
        use_rotation |-> flags.use_rotation,
        use_sqrt_weights |-> flags.use_sqrt_weights]

\* --use-data-aug, --use-rotation, --use-sqrt-weights
Flags == [use_data_aug : BOOLEAN, use_rotation : BOOLEAN, use_sqrt_weights : BOOLEAN]

NoFlags == [use_data_aug |-> FALSE, use_rotation |-> FALSE, use_sqrt_weights |-> FALSE]

\* XYZTileDataset.__init__
XYZTileDataset(w, flags) ==
    LET entries == Walk(w.tree, w.manifest.dir_path)
        cats == w.manifest.categories
    IN Dataset("XYZTileDataset", XYZTileSamples(entries, cats),
               CountLabels(entries, cats, TRUE, TRUE),
               CountLabels(entries, cats, FALSE, TRUE), flags)

\* ConvLSTMCDataset.__init__
ConvLSTMCDataset(w, flags) ==
    LET entries == Walk(w.tree, w.manifest.dir_path)
        cats == w.manifest.categories
    IN Dataset("ConvLSTMCDataset", ConvLSTMCSamples(entries, cats),
               CountLabels(entries, cats, TRUE, FALSE),
               CountLabels(entries, cats, FALSE, FALSE), flags)

\* An image: the file it was read from, its pixels (two rows of two) and the
\* angle it has been rotated by.
Load(filepath) ==
    [path |-> filepath, rows |-> << <<1, 2>>, <<3, 4>> >>, angle |-> 0]

\* TF.vflip: top and bottom exchanged.
VFlip(image) == [image EXCEPT !.rows = << image.rows[2], image.rows[1] >>]

\* TF.hflip: left and right exchanged.
HFlip(image) ==
    [image EXCEPT !.rows = << << image.rows[1][2], image.rows[1][1] >>,
                              << image.rows[2][2], image.rows[2][1] >> >>]

\* TF.rotate(image, angle)
Rotate(image, angle) == [image EXCEPT !.angle = image.angle + angle]

\* spatial_transform (lines 258-269 and 407-418)
spatial_transform(image, angle, idx) ==
    IF idx = 0 THEN image
    ELSE IF idx = 1 THEN VFlip(image)
    ELSE IF idx = 2 THEN HFlip(image)
    ELSE Rotate(image, angle)

\* random.randint(a, b)
RandInt(a, b) == a..b

\* A variant that draws the index and the angle as if use_rotation were set.
Draws_RotationIgnored(d) ==
    IF ~d.use_data_aug THEN { [idx |-> 0, angle |-> 0, drawn |-> <<>>] }
    ELSE { [idx |-> t, angle |-> a, drawn |-> <<t, a>>] :
               t \in RandInt(0, 3), a \in RandInt(0 - MAX_ANGLE, MAX_ANGLE) }

\* Lines 278-284 and 428-434: the random numbers one __getitem__ call draws, in
\* order, with the transform index and the angle they give.
Draws(d) ==
    IF ~d.use_data_aug THEN { [idx |-> 0, angle |-> 0, drawn |-> <<>>] }
    ELSE IF d.use_rotation
    THEN { [idx |-> t, angle |-> a, drawn |-> <<t, a>>] :
               t \in RandInt(0, 3), a \in RandInt(0 - MAX_ANGLE, MAX_ANGLE) }
    ELSE { [idx |-> t, angle |-> 0, drawn |-> <<t>>] : t \in RandInt(0, 2) }

\* A variant of the frame loop that moves on to the next transform after
\* every frame.
RECURSIVE ConvLSTMCFrames_PerFrame(_, _, _, _, _)
ConvLSTMCFrames_PerFrame(dirpath, filenames, use_data_aug, angle, idx) ==
    IF filenames = <<>> THEN <<>>
    ELSE LET image == Load(PathJoin(dirpath, Head(filenames)))
         IN << IF use_data_aug THEN spatial_transform(image, angle, idx) ELSE image >>
            \o ConvLSTMCFrames_PerFrame(dirpath, Tail(filenames), use_data_aug, angle,
                                        (idx + 1) % 3)

\* ConvLSTMCDataset.__getitem__, lines 436-447: the frames in loop order.
RECURSIVE ConvLSTMCFrames(_, _, _, _, _)
ConvLSTMCFrames(dirpath, filenames, use_data_aug, angle, idx) ==
    IF filenames = <<>> THEN <<>>
    ELSE LET image == Load(PathJoin(dirpath, Head(filenames)))
         IN << IF use_data_aug THEN spatial_transform(image, angle, idx) ELSE image >>
            \o ConvLSTMCFrames(dirpath, Tail(filenames), use_data_aug, angle, idx)

NoDraw == [idx |-> 0, angle |-> 0, drawn |-> <<>>]

NoTarget == [boxes |-> <<>>, labels |-> <<>>, boxes_shape |-> <<>>, labels_shape |-> <<>>]

\* What a __getitem__ call returns or raises.
Item(kind, idx, status, X, Y, draw, target) ==
    [kind |-> kind, idx |-> idx, status |-> status, X |-> X, Y |-> Y,
     draw |-> draw, target |-> target]

\* ConvLSTMCDataset.__getitem__(idx) with the random numbers of draw; torch.stack
\* raises RuntimeError on an empty list of frames.
ConvLSTMCGetItem(d, idx, draw) ==
    LET sample == d.samples[idx + 1]
        frames == ConvLSTMCFrames(sample.dirpath, sort_filenames(sample.filenames),
                                  d.use_data_aug, draw.angle, draw.idx)
    IN IF frames = <<>>
       THEN Item(d.kind, idx, "RuntimeError", <<>>, 0, draw, NoTarget)
       ELSE Item(d.kind, idx, "ok", frames, sample.label, draw, NoTarget)

\* XYZTileDataset.__getitem__(idx) with the random numbers of draw.
XYZTileGetItem(d, idx, draw) ==
    LET sample == d.samples[idx + 1]
        image == Load(PathJoin(sample.dirpath, sample.filename))
    IN Item(d.kind, idx, "ok",
            IF d.use_data_aug THEN spatial_transform(image, draw.angle, draw.idx) ELSE image,
            sample.label, draw, NoTarget)

---------------------------------------------------------------------------
(* datasets.py: EurosatDataset *)

\* The extension glob looks for.
TifExt == << ".", "t", "i", "f" >>

Tif(stem) == stem \o TifExt

\* A EuroSAT directory: one directory of .tif tiles per category.
TreeEurosat ==
    (<<"d">> :> Listing(<< <<"p">>, <<"n">> >>, <<>>))
    @@ (<<"d", "/", "p">> :> Listing(<<>>, << Tif(<<"2">>), Tif(<<"1">>) >>))
    @@ (<<"d", "/", "n">> :> Listing(<<>>, << Tif(<<"1">>), <<"1">> >>))

\* A data directory with tiles beside and below the category directories, a
\* hidden directory, a hidden file and a directory whose name ends in .tif.
TreeEurosatStray ==
    (<<"d">> :> Listing(<< <<"p">>, <<".", "p">> >>, << Tif(<<"1">>) >>))
    @@ (<<"d", "/", "p">> :> Listing(<< <<"e">>, Tif(<<"x">>) >>,
                                     << Tif(<<"1">>), Tif(<<".", "2">>) >>))
    @@ (<<"d", "/", "p", "/", "e">> :> Listing(<<>>, << Tif(<<"1">>) >>))
    @@ (<<"d", "/", "p", "/", "x", ".", "t", "i", "f">> :> Listing(<<>>, <<>>))
    @@ (<<"d", "/", ".", "p">> :> Listing(<<>>, << Tif(<<"1">>) >>))

EurosatTrees == {TreeEurosat, TreeEurosatStray}

EurosatWorlds == [tree : EurosatTrees, manifest : {DetManifest}]

\* glob: a name that starts with a dot is matched by no wildcard.
IsHidden(name) == name /= <<>> /\ name[1] = "."

\* fnmatch(name, "*.tif") for a name glob considers.
MatchesTif(name) ==
    /\ ~IsHidden(name)
    /\ Len(name) >= Len(TifExt)
    /\ SubSeq(name, Len(name) - Len(TifExt) + 1, Len(name)) = TifExt

\* The directories "**" stands for under top: top itself, then every
\* directory below it that is not hidden, each before its children.
RECURSIVE GlobDirs(_, _)
RECURSIVE GlobChildren(_, _, _)
GlobDirs(t, top) ==
    IF top \notin DOMAIN t THEN <<>>
    ELSE << top >> \o GlobChildren(t, top, t[top].dirnames)
GlobChildren(t, top, names) ==
    IF names = <<>> THEN <<>>
    ELSE (IF IsHidden(Head(names)) THEN <<>> ELSE GlobDirs(t, PathJoin(top, Head(names))))
         \o GlobChildren(t, top, Tail(names))

\* The matches of "*.tif" in the directories dirs: glob does not tell files
\* from directories.
RECURSIVE GlobMatches(_, _)
GlobMatches(t, dirs) ==
    IF dirs = <<>> THEN <<>>
    ELSE LET here == Head(dirs)
             names == SelectSeq(t[here].dirnames \o t[here].filenames, MatchesTif)
         IN [i \in 1..Len(names) |-> PathJoin(here, names[i])]
            \o GlobMatches(t, Tail(dirs))

\* glob.glob(dir_path + "/**/*.tif", recursive=True) (line 41)
glob(t, dir_path) == GlobMatches(t, GlobDirs(t, NormPath(dir_path)))

\* str.split("/")
RECURSIVE SplitSlash(_, _)
SplitSlash(str, part) ==
    IF str = <<>> THEN << part >>
    ELSE IF Head(str) = "/" THEN << part >> \o SplitSlash(Tail(str), <<>>)
    ELSE SplitSlash(Tail(str), Append(part, Head(str)))

\* EurosatDataset.get_category_from_filepath (lines 74-76)
get_category_from_filepath(filepath) ==
    LET parts == SplitSlash(filepath, <<>>) IN parts[Len(parts) - 1]

\* The keys of the categories object.
CategoryKeys(cats) == { cats[i].key : i \in 1..Len(cats) }

\* categories[key] for a key of the object.
CategoryValue(cats, key) ==
    cats[CHOOSE i \in 1..Len(cats) : cats[i].key = key].value

\* EurosatDataset.__init__ (lines 40-47)
EurosatDataset(w, use_data_aug) ==
    [filepaths |-> glob(w.tree, w.manifest.dir_path),
     categories |-> w.manifest.categories]
    @@ [Dataset("EurosatDataset", <<>>, 0, 0, [NoFlags EXCEPT !.use_data_aug = use_data_aug])
          EXCEPT !.status = "ok",
                 !.class_weights = << Weight(DFromInt(1), FALSE), Weight(DFromInt(1), FALSE) >>]

\* EurosatDataset.__len__
EurosatLen(d) == Len(d.filepaths)

\* max_pix_value of preprocess (line 95)
MAX_PIX_VALUE == 10000

\* preprocess (lines 94-96), then .float() (line 135)
preprocess(image) ==
    [image EXCEPT !.rows = [r \in 1..2 |-> [c \in 1..2 |->
                               ToFloat32(FloatDiv(image.rows[r][c], MAX_PIX_VALUE))]]]

\* random.random() in eighths: the values 0, 1/8, ..., 7/8.
RandomUnit == 0..7

\* p = 0.75 of horizontal_flip, vertical_flip and rotate, in eighths.
FLIP_P == 6

\* max_angle of rotate (line 116)
ROTATE_MAX_ANGLE == 30

\* horizontal_flip (lines 99-104) with the random number u
horizontal_flip(image, u) == IF u > FLIP_P THEN HFlip(image) ELSE image

\* vertical_flip (lines 107-112) with the random number u
vertical_flip(image, u) == IF u > FLIP_P THEN VFlip(image) ELSE image

\* rotate (lines 115-121) with the random numbers u and angle
rotate(image, u, angle) == IF u > FLIP_P THEN Rotate(image, angle) ELSE image

\* A variant that draws the transform whatever use_data_aug says.
EurosatDraws_Always(d) ==
    { [idx |-> t, u |-> u, angle |-> 0, drawn |-> <<t, u>>] :
          t \in RandInt(0, 2), u \in RandomUnit }

\* Lines 138-145: the random numbers one __getitem__ call draws, in order:
\* the transform index, the number compared with p and, when rotate rotates,
\* the angle.
EurosatDraws(d) ==
    IF ~d.use_data_aug THEN { NoDraw }
    ELSE LET rotating == { pr \in RandInt(0, 2) \X RandomUnit : pr[1] = 2 /\ pr[2] > FLIP_P }
         IN { [idx |-> pr[1], u |-> pr[2], angle |-> 0, drawn |-> << pr[1], pr[2] >>] :
                  pr \in (RandInt(0, 2) \X RandomUnit) \ rotating }
            \cup { [idx |-> pr[1], u |-> pr[2], angle |-> a, drawn |-> << pr[1], pr[2], a >>] :
                       pr \in rotating, a \in RandInt(0 - ROTATE_MAX_ANGLE, ROTATE_MAX_ANGLE) }

\* Whether the tree holds a directory at path.
IsDir(t, path) == path \in DOMAIN t

\* EurosatDataset.__getitem__(idx) with the random numbers of draw (lines
\* 124-150). categories[category] raises KeyError for a name that is no key;
\* gdal.Open gives None for a directory, and load raises AttributeError.
EurosatGetItem(w, d, idx, draw) ==
    LET filepath == d.filepaths[idx + 1]
        category == get_category_from_filepath(filepath)
        image == preprocess(Load(filepath))
    IN IF category \notin CategoryKeys(d.categories)
       THEN Item(d.kind, idx, "KeyError", <<>>, 0, NoDraw, NoTarget)
       ELSE IF IsDir(w.tree, filepath)
       THEN Item(d.kind, idx, "AttributeError", <<>>, 0, NoDraw, NoTarget)
       ELSE Item(d.kind, idx, "ok",
                 IF ~d.use_data_aug THEN image
                 ELSE IF draw.idx = 0 THEN horizontal_flip(image, draw.u)
                 ELSE IF draw.idx = 1 THEN vertical_flip(image, draw.u)
                 ELSE rotate(image, draw.u, draw.angle),
                 CategoryValue(d.categories, category), draw, NoTarget)

\* The data directories and manifests the datasets are built over.
Worlds == [tree : Trees, manifest : Manifests] \cup EurosatWorlds

---------------------------------------------------------------------------
(* datasets.py: XYZObjectDetectionDatasetTwo *)

MaxRegions == 2

Region(x, y, width, height) == [x |-> x, y |-> y, width |-> width, height |-> height]

\* The shape_attributes of the annotated regions the samples are drawn from.
Regions ==
    { Region(0, 0, 1, 1), Region(1, 0, 1, 2), Region(0, 1, 2, 1), Region(1, 1, 0, 0),
      Region(1, 2, 3, 3), Region(2, 1, -1, 1), Region(0, 0, 25, 41) }

RegionLists == UNION { [1..n -> Regions] : n \in 0..MaxRegions }

\* image.size of the tiles: (width, height).
OriginalSizes == { <<2, 2>>, <<3, 4>>, <<448, 224>>, <<25, 41>> }

\* INPUT_SIZE
INPUT_SIZE == <<INPUT_SIDE, INPUT_SIDE>>

\* A sample as prepare_sios_samples / get_negative_sios_samples hand it over:
\* annotations is None (none = TRUE) for a negative tile.
DetSample(none, regions, size) ==
    [annotations |-> [none |-> none, regions |-> regions], size |-> size]

PositiveSamples == { DetSample(FALSE, rs, sz) : rs \in RegionLists, sz \in OriginalSizes }
NegativeSamples == { DetSample(TRUE, <<>>, sz) : sz \in OriginalSizes }

\* A variant that scales the far corner by the ratios of the other axis.
RegionBox_RatiosExchanged(region, original_image_size, transformed_image_size) ==
    LET width_ratio == FloatDiv(transformed_image_size[1], original_image_size[1])
        height_ratio == FloatDiv(transformed_image_size[2], original_image_size[2])
        x_max == region.x + region.width
        y_max == region.y + region.height
    IN IF original_image_size /= <<>> /\ transformed_image_size /= <<>>
       THEN << FloatMulInt(region.x, width_ratio), FloatMulInt(region.y, height_ratio),
               FloatMulInt(x_max, height_ratio), FloatMulInt(y_max, width_ratio) >>
       ELSE << DFromInt(region.x), DFromInt(region.y), DFromInt(x_max), DFromInt(y_max) >>

\* Lines 748-767: the box [x, y, x_max, y_max] of one region; <<>> stands for a
\* size that is None. The regions of the model have no negative corner.
RegionBox(region, original_image_size, transformed_image_size) ==
    LET width_ratio == FloatDiv(transformed_image_size[1], original_image_size[1])
        height_ratio == FloatDiv(transformed_image_size[2], original_image_size[2])
        x_max == region.x + region.width
        y_max == region.y + region.height
    IN IF original_image_size /= <<>> /\ transformed_image_size /= <<>>
       THEN << FloatMulInt(region.x, width_ratio), FloatMulInt(region.y, height_ratio),
               FloatMulInt(x_max, width_ratio), FloatMulInt(y_max, height_ratio) >>
       ELSE << DFromInt(region.x), DFromInt(region.y), DFromInt(x_max), DFromInt(y_max) >>

\* torch.tensor(boxes): every number of the nested list as a tensor element.
TorchTensor(boxes) ==
    [i \in DOMAIN boxes |-> [k \in DOMAIN boxes[i] |-> ToFloat32(boxes[i][k])]]

\* torch.tensor(boxes).shape for a list of n boxes of four numbers.
TensorShapeOfBoxes(n) == IF n = 0 THEN <<0>> ELSE <<n, 4>>

\* XYZObjectDetectionDatasetTwo.make_bounding_box_from_annotation (lines 734-777)
make_bounding_box_from_annotation(annotations, original_image_size, transformed_image_size) ==
    IF annotations.none
    THEN [boxes |-> <<>>, labels |-> <<>>, boxes_shape |-> <<0, 4>>, labels_shape |-> <<0>>]
    ELSE LET regions == annotations.regions
         IN [boxes |-> TorchTensor([i \in 1..Len(regions) |->
                           RegionBox(regions[i], original_image_size, transformed_image_size)]),
             labels |-> [i \in 1..Len(regions) |-> 1],
             boxes_shape |-> TensorShapeOfBoxes(Len(regions)),
             labels_shape |-> <<Len(regions)>>]

\* XYZObjectDetectionDatasetTwo.__getitem__ (lines 780-800)
DetTwoGetItem(d, idx) ==
    LET sample == d.samples[idx + 1]
    IN Item(d.kind, idx, "ok", <<>>, 0, NoDraw,
            make_bounding_box_from_annotation(sample.annotations, sample.size, INPUT_SIZE))

---------------------------------------------------------------------------
(* datasets.py: XYZObjectDetectionDataset *)

\* One entry of the annotations file: the tile index it is keyed by and the
\* annotation.
Annotation(tile_idx, annotation) == [tile_idx |-> tile_idx, annotation |-> annotation]

\* The annotations files, each in the order of its JSON object.
AnnotationDicts ==
    { << Annotation(<<"p">>, Region(0, 0, 1, 1)), Annotation(<<"n">>, Region(1, 0, 1, 2)) >>,
      << Annotation(<<"/", "p">>, Region(0, 1, 2, 1)), Annotation(<<"d">>, Region(1, 2, 3, 3)) >>,
      << Annotation(<<"x">>, Region(0, 0, 1, 1)) >>,
      <<>> }

\* A variant that skips no category.
SkipCategory_Never(value, pos_only) == FALSE

\* `if not value and pos_only: continue` (lines 489-490)
SkipCategory(value, pos_only) == ~Truthy(value) /\ pos_only

\* Lines 494-505: the records of one directory, one category and one annotation.
AnnotatedRecords(dirpath, filenames, annotation, value) ==
    [i \in 1..Len(filenames) |->
        [dirpath |-> dirpath, filename |-> filenames[i], annotation |-> annotation,
         label |-> value]]

\* Lines 492-505 for one walked directory and one category.
RECURSIVE DetAnnotationRecords(_, _, _)
DetAnnotationRecords(entry, value, annotations) ==
    IF annotations = <<>> THEN <<>>
    ELSE (IF IsSubstring(Head(annotations).tile_idx, entry.dirpath)
          THEN AnnotatedRecords(entry.dirpath, entry.filenames,
                                Head(annotations).annotation, value)
          ELSE <<>>)
         \o DetAnnotationRecords(entry, value, Tail(annotations))

\* Lines 488-505 for one walked directory.
RECURSIVE DetCategoryRecords(_, _, _, _)
DetCategoryRecords(entry, cats, annotations, pos_only) ==
    IF cats = <<>> THEN <<>>
    ELSE (IF ~SkipCategory(Head(cats).value, pos_only)
             /\ IsSubstring(Head(cats).key, entry.dirpath)
          THEN DetAnnotationRecords(entry, Head(cats).value, annotations)
          ELSE <<>>)
         \o DetCategoryRecords(entry, Tail(cats), annotations, pos_only)

\* Lines 486-505, the samples list.
RECURSIVE DetSamples(_, _, _, _)
DetSamples(entries, cats, annotations, pos_only) ==
    IF entries = <<>> THEN <<>>
    ELSE (IF IsLeafEntry(Head(entries))
          THEN DetCategoryRecords(Head(entries), cats, annotations, pos_only)
          ELSE <<>>)
         \o DetSamples(Tail(entries), cats, annotations, pos_only)

\* XYZObjectDetectionDataset.__init__ (lines 469-518); the annotations file
\* and pos_only are kept beside the object.
XYZObjectDetectionDataset(w, annotations_dict, pos_only) ==
    [categories |-> w.manifest.categories,
     annotations_dict |-> annotations_dict,
     pos_only |-> pos_only]
    @@ [Dataset("XYZObjectDetectionDataset",
                DetSamples(Walk(w.tree, w.manifest.dir_path), w.manifest.categories,
                           annotations_dict, pos_only),
                0, 0, NoFlags)
          EXCEPT !.status = "ok"]

---------------------------------------------------------------------------
(* datasets.py: the state machine *)

NoWorld == [tree |-> <<>>, manifest |-> [dir_path |-> <<>>, categories |-> <<>>]]

NoDataset == [Dataset("none", <<>>, 0, 0, NoFlags) EXCEPT !.status = "none"]

NoItem == Item("none", 0, "none", <<>>, 0, NoDraw, NoTarget)

IdleTrain ==
    /\ cfg = CHOOSE c \in Configs : c.num_epochs = 0
    /\ loaders = NoLoaders
    /\ pc = "idle"
    /\ epoch = 0
    /\ bi = 0
    /\ train_loss = DFromInt(0)
    /\ validation_loss = DFromInt(0)
    /\ metrics = NoMetrics
    /\ trace = <<>>
    /\ saved = <<>>
    /\ train_lines = <<>>
    /\ val_lines = <<>>
    /\ err = "none"

InitData ==
    /\ world \in Worlds
    /\ ds = NoDataset
    /\ item = NoItem

\* dataset = XYZTileDataset()
XYZTileInit ==
    /\ ds.kind = "none"
    /\ \E flags \in Flags : ds' = XYZTileDataset(world, flags)
    /\ UNCHANGED <<world, item, prun>>
    /\ UNCHANGED trainVars

\* dataset = ConvLSTMCDataset()
ConvLSTMCInit ==
    /\ ds.kind = "none"
    /\ \E flags \in Flags : ds' = ConvLSTMCDataset(world, flags)
    /\ UNCHANGED <<world, item, prun>>
    /\ UNCHANGED trainVars

\* dataset[idx] on an XYZTileDataset. A call reads the dataset and the random
\* numbers only, so a behaviour follows one call.
XYZTileGet ==
    /\ ds.kind = "XYZTileDataset"
    /\ ds.status = "ok"
    /\ item.kind = "none"
    /\ \E idx \in 0..(Len(ds.samples) - 1), draw \in Draws(ds) :
          item' = XYZTileGetItem(ds, idx, draw)
    /\ UNCHANGED <<world, ds, prun>>
    /\ UNCHANGED trainVars

\* dataset[idx] on a ConvLSTMCDataset
ConvLSTMCGet ==
    /\ ds.kind = "ConvLSTMCDataset"
    /\ ds.status = "ok"
    /\ item.kind = "none"
    /\ \E idx \in 0..(Len(ds.samples) - 1), draw \in Draws(ds) :
          item' = ConvLSTMCGetItem(ds, idx, draw)
    /\ UNCHANGED <<world, ds, prun>>
    /\ UNCHANGED trainVars

\* dataset = EurosatDataset()
EurosatInit ==
    /\ ds.kind = "none"
    /\ \E use_data_aug \in BOOLEAN : ds' = EurosatDataset(world, use_data_aug)
    /\ UNCHANGED <<world, item, prun>>
    /\ UNCHANGED trainVars

\* dataset[idx] on a EurosatDataset
EurosatGet ==
    /\ ds.kind = "EurosatDataset"
    /\ item.kind = "none"
    /\ \E idx \in 0..(EurosatLen(ds) - 1), draw \in EurosatDraws(ds) :
          item' = EurosatGetItem(world, ds, idx, draw)
    /\ UNCHANGED <<world, ds, prun>>
    /\ UNCHANGED trainVars

\* dataset = XYZObjectDetectionDataset()
DetInit ==
    /\ ds.kind = "none"
    /\ \E annotations_dict \in AnnotationDicts, pos_only \in BOOLEAN :
          ds' = XYZObjectDetectionDataset(world, annotations_dict, pos_only)
    /\ UNCHANGED <<world, item, prun>>
    /\ UNCHANGED trainVars

\* The imagery directory the detection samples are taken over. What
\* prepare_sios_samples and get_negative_sios_samples make of it is drawn from
\* PositiveSamples and NegativeSamples.
DetWorld == [tree |-> TreeRootLeaf, manifest |-> DetManifest]

\* dataset = XYZObjectDetectionDatasetTwo(): the positive samples, then the
\* negative samples unless --pos-only (lines 650-655).
DetTwoInit ==
    /\ ds.kind = "none"
    /\ world = DetWorld
    /\ \E pos_only \in BOOLEAN, s \in PositiveSamples, ng \in NegativeSamples :
          ds' = [NoDataset EXCEPT !.kind = "XYZObjectDetectionDatasetTwo",
                                  !.status = "ok",
                                  !.samples = IF pos_only THEN <<s>> ELSE <<s, ng>>]
    /\ UNCHANGED <<world, item, prun>>
    /\ UNCHANGED trainVars

\* dataset[idx] on an XYZObjectDetectionDatasetTwo
DetTwoGet ==
    /\ ds.kind = "XYZObjectDetectionDatasetTwo"
    /\ item.kind = "none"
    /\ \E idx \in 0..(Len(ds.samples) - 1) : item' = DetTwoGetItem(ds, idx)
    /\ UNCHANGED <<world, ds, prun>>
    /\ UNCHANGED trainVars

NextData ==
    \/ XYZTileInit
    \/ ConvLSTMCInit
    \/ XYZTileGet
    \/ ConvLSTMCGet
    \/ DetTwoInit
    \/ DetTwoGet
    \/ EurosatInit
    \/ EurosatGet
    \/ DetInit

---------------------------------------------------------------------------
(* predict.py: inputs *)

\* The names a class statement binds in ConvLSTMCDataset (datasets.py lines
\* 303-457); its base torch.utils.data.Dataset defines neither sample_gen nor
\* save_preds.
ConvLSTMCDatasetAttributes ==
    { "DEFAULT_DATA_MANIFEST", "DEFAULT_USE_DATA_AUG", "DEFAULT_USE_ROTATION",
      "DEFAULT_USE_SQRT_WEIGHTS", "MAX_ANGLE", "INPUT_SIZE", "__init__",
      "parse_args", "__len__", "read_png", "read_png_as_arr", "sort_filenames",
      "spatial_transform", "__getitem__" }

\* The values of --model tried: the three imported model classes and a name
\* that is no model.
ModelNames == { "CNNLSTM", "SqueezeNet", "SpectrumNet", "ResNet" }

\* The shapes of X a sample generator may yield: 1 x frames x C x H x W.
SampleShapes == { <<1, 2, 3, INPUT_SIDE, INPUT_SIDE>>, <<1, 3, 1, INPUT_SIDE, INPUT_SIDE>> }

RECURSIVE SeqsUpTo(_, _)
SeqsUpTo(S, n) ==
    IF n = 0 THEN { <<>> }
    ELSE LET shorter == SeqsUpTo(S, n - 1)
         IN shorter \cup { Append(s, x) : s \in shorter, x \in S }

\* One invocation of predict.py: the arguments, whether the checkpoint file
\* can be loaded, the num_channels the model was built with and the samples
\* the generator would yield over --data-dir.
PredictInputs ==
    [ model : ModelNames,
      channel_axis : { DEFAULT_CHANNEL_AXIS, 2, 5 },
      model_num_channels : { 1, 3 },
      checkpoint_ok : BOOLEAN,
      samples : SeqsUpTo(SampleShapes, MaxLen) ]

---------------------------------------------------------------------------
(* predict.py: the module body and main *)

\* A call predict.py makes; sample_idx is main's local of that name (0 outside
\* the sample loop).
PEvent(name, idx) == [ev |-> name, sample_idx |-> idx]

ErrorNames == { "AttributeError", "KeyError", "FileNotFoundError", "IndexError",
                "AssertionError" }

EndsInError(evs) == evs /= <<>> /\ evs[Len(evs)].ev \in ErrorNames

\* Lines 11-42: the imports and the three registries. Evaluating the dict
\* display of line 36-38 looks up ConvLSTMCDataset.sample_gen, that of lines
\* 40-42 ConvLSTMCDataset.save_preds.
PredictModule ==
    LET models == { "SqueezeNet", "SpectrumNet", "CNNLSTM" }
    IN IF "sample_gen" \notin ConvLSTMCDatasetAttributes
       THEN [status |-> "AttributeError", MODELS |-> models,
             SAMPLE_GENERATORS |-> {}, PRED_SAVE_FUNCTIONS |-> {}]
       ELSE IF "save_preds" \notin ConvLSTMCDatasetAttributes
       THEN [status |-> "AttributeError", MODELS |-> models,
             SAMPLE_GENERATORS |-> { "CNNLSTM" }, PRED_SAVE_FUNCTIONS |-> {}]
       ELSE [status |-> "ok", MODELS |-> models,
             SAMPLE_GENERATORS |-> { "CNNLSTM" }, PRED_SAVE_FUNCTIONS |-> { "CNNLSTM" }]

\* A variant of the sample loop body that runs the model before the assertion.
PredictSampleEvents_AssertLate(inp, k, n) ==
    IF n = -1 THEN << PEvent("IndexError", k) >>
    ELSE IF n /= inp.model_num_channels
    THEN << PEvent("logging.info", k), PEvent("forward", k), PEvent("AssertionError", k) >>
    ELSE << PEvent("logging.info", k), PEvent("forward", k), PEvent("assert_ok", k),
            PEvent("logging.info", k), PEvent("save_preds", k) >>

\* Lines 169-181: the body of `for sample in samples` on the k-th sample, whose
\* X has n channels on the channel axis (-1: the axis does not exist).
PredictSampleEvents(inp, k, n) ==
    IF n = -1 THEN << PEvent("IndexError", k) >>
    ELSE IF n /= inp.model_num_channels THEN << PEvent("AssertionError", k) >>
    ELSE << PEvent("assert_ok", k), PEvent("logging.info", k), PEvent("forward", k),
            PEvent("logging.info", k), PEvent("save_preds", k) >>

\* Lines 167-181: the loop from the k-th sample on; an exception ends it.
RECURSIVE PredictLoop(_, _)
PredictLoop(inp, k) ==
    IF k > Len(inp.samples) THEN <<>>
    ELSE LET evs == PredictSampleEvents(inp, k, ShapeAt(inp.samples[k], inp.channel_axis))
         IN IF EndsInError(evs) THEN evs ELSE evs \o PredictLoop(inp, k + 1)

\* Lines 110-190: main, given the registries the module body built.
PredictMain(inp, reg) ==
    LET pre == << PEvent("parse_args", 0), PEvent("makedirs", 0), PEvent("makedirs", 0),
                  PEvent("parse_args", 0), PEvent("logging.info", 0) >>
        loop == PredictLoop(inp, 1)
    IN IF \/ inp.model \notin reg.SAMPLE_GENERATORS
          \/ inp.model \notin reg.PRED_SAVE_FUNCTIONS
          \/ inp.model \notin reg.MODELS
       THEN Append(pre, PEvent("KeyError", 0))
       ELSE IF ~inp.checkpoint_ok
       THEN pre \o << PEvent("model_init", 0), PEvent("FileNotFoundError", 0) >>
       ELSE pre \o << PEvent("model_init", 0), PEvent("load_state_dict", 0),
                      PEvent("logging.info", 0), PEvent("get_args", 0),
                      PEvent("sample_generator", 0) >>
                \o loop
                \o (IF EndsInError(loop) THEN <<>> ELSE << PEvent("done", Len(inp.samples)) >>)

\* `python predict.py ...`: the module body, then main() (lines 193-194).
PredictScript(inp) ==
    IF PredictModule.status /= "ok"
    THEN << PEvent("import", 0), PEvent(PredictModule.status, 0) >>
    ELSE << PEvent("import", 0) >> \o PredictMain(inp, PredictModule)

NoPredictRun ==
    [inputs |-> CHOOSE i \in PredictInputs : i.samples = <<>>,
     pc |-> "idle", trace |-> <<>>, err |-> "none"]

InitPredict ==
    \E inp \in PredictInputs :
        prun = [inputs |-> inp, pc |-> "start", trace |-> <<>>, err |-> "none"]

\* One run of the script, from the interpreter's start to its exit.
PredictRun ==
    /\ prun.pc = "start"
    /\ LET evs == PredictScript(prun.inputs)
       IN prun' = [prun EXCEPT !.trace = evs,
                               !.pc = IF EndsInError(evs) THEN "crashed" ELSE "done",
                               !.err = IF EndsInError(evs) THEN evs[Len(evs)].ev ELSE "none"]
    /\ UNCHANGED <<world, ds, item>>
    /\ UNCHANGED trainVars

NextPredict == PredictRun

IdleData ==
    /\ world = NoWorld
    /\ ds = NoDataset
    /\ item = NoItem

IdlePredict == prun = NoPredictRun

Init == InitTrain /\ IdleData /\ IdlePredict

Next ==
    \/ Setup
    \/ StartEpoch
    \/ TrainOneEpoch
    \/ TrainBatch
    \/ EndTrainLoop
    \/ BeginValidation
    \/ Evaluate
    \/ ValBatch
    \/ EndValLoop
    \/ SchedulerPhase
    \/ LossesPhase
    \/ CheckpointPhase
    \/ Finish

Spec == Init /\ [][Next]_vars

\* main is a sequential program: whenever a statement can run, it runs.
FairSpec == Spec /\ WF_vars(Next)

InitDataSpec == IdleTrain /\ InitData /\ IdlePredict

SpecData == InitDataSpec /\ [][NextData]_vars

InitPredictSpec == IdleTrain /\ IdleData /\ InitPredict

SpecPredict == InitPredictSpec /\ [][NextPredict]_vars

---------------------------------------------------------------------------
(* Properties of train.main *)

Terminated == pc \in {"done", "crashed"}

\* The positions of trace holding an event named in names, for epoch e.
EventsOf(names, e) == {i \in DOMAIN trace : trace[i].ev \in names /\ trace[i].epoch = e}
LoopEventsOf(loop, names, e) == {i \in EventsOf(names, e) : trace[i].loop = loop}

SavedEpochs == {saved[i].epoch : i \in DOMAIN saved}

\* The epochs whose last statement, the checkpoint decision of lines 488-492,
\* has run: it took a branch or raised.
EndedEpochs ==
    {e \in 1..epoch : EventsOf({"ckpt_decision", "ZeroDivisionError"}, e) /= {}}

\* The condition the checkpoint is said to depend on; e mod 0 is no number and
\* equals nothing.
ShouldCheckpoint(e) ==
    \/ cfg.save_model /\ cfg.save_every /= 0 /\ PyMod(e, cfg.save_every) = 0
    \/ e = cfg.num_epochs

\* Every torch.save follows the checkpoint decision of its epoch, an epoch is
\* saved at most once, and no two checkpoints of a run share a file name.
CheckpointsDistinct ==
    /\ \A i \in DOMAIN trace :
          trace[i].ev = "torch.save" =>
              /\ i > 1
              /\ trace[i - 1] = Event("ckpt_decision", trace[i].epoch, 0)
              /\ trace[i].epoch \in SavedEpochs
    /\ \A e \in SavedEpochs : Cardinality(EventsOf({"torch.save"}, e)) = 1
    /\ \A i, j \in DOMAIN saved : i /= j => saved[i].path /= saved[j].path

\* The checkpoint rule on the epochs whose decision took a branch.
CheckpointsWhereDecided ==
    /\ \A e \in 1..epoch :
          EventsOf({"ckpt_decision"}, e) /= {} => (e \in SavedEpochs <=> ShouldCheckpoint(e))
    /\ (pc = "done" /\ cfg.num_epochs >= 1) => cfg.num_epochs \in SavedEpochs
    /\ CheckpointsDistinct

\* C2: at the end of epoch e the checkpoint of epoch e is written iff
\* (save_model and e mod save_every = 0) or e = num_epochs; the final epoch is
\* always checkpointed, also without --save-model; and no two checkpoints of a
\* run share a file name.
C2_CheckpointIff ==
    /\ \A e \in EndedEpochs : e \in SavedEpochs <=> ShouldCheckpoint(e)
    /\ cfg.num_epochs \in EndedEpochs => cfg.num_epochs \in SavedEpochs
    /\ CheckpointsDistinct

\* The phase an event belongs to (0: the event is none of a phase).
PhaseRank(x) ==
    CASE x.loop = "train" /\ x.ev \notin {"AssertionError", "IndexError"} -> 1
      [] x.ev = "train_one_epoch" -> 1
      [] x.loop = "val" /\ x.ev \notin {"AssertionError", "IndexError"} -> 2
      [] x.ev = "evaluate" -> 2
      [] x.ev = "scheduler_step" -> 3
      [] x.ev = "append_losses" -> 4
      [] x.ev \in {"ckpt_decision", "torch.save"} -> 5
      [] OTHER -> 0

IsPhaseEvent(x) == PhaseRank(x) > 0 \/ x.ev = "epoch_start"

PhaseTrace == SelectSeq(trace, IsPhaseEvent)

\* What each phase of a completed epoch e must have done.
EpochComplete(e) ==
    /\ Cardinality(EventsOf({"epoch_start"}, e)) = 1
    /\ IF cfg.shape.detector
       THEN Cardinality(EventsOf({"train_one_epoch"}, e)) = 1
       ELSE Cardinality(LoopEventsOf("train", {"optimizer_step"}, e)) = Len(TrainBatches(loaders))
    /\ Cardinality(LoopEventsOf("val", {"forward"}, e)) =
          (IF cfg.val.validation /\ ~cfg.shape.detector THEN Len(ValBatches(loaders)) ELSE 0)
    /\ Cardinality(EventsOf({"evaluate"}, e)) =
          (IF cfg.val.validation /\ cfg.shape.detector THEN 1 ELSE 0)
    /\ Cardinality(EventsOf({"scheduler_step"}, e)) =
          (IF cfg.sched.use_scheduler THEN 1 ELSE 0)
    /\ Cardinality(EventsOf({"append_losses"}, e)) = (IF cfg.save_losses THEN 1 ELSE 0)

\* C3: within an epoch the phases run in the order training, validation,
\* scheduler step, loss files, checkpoint decision; every phase of an epoch is
\* complete when its checkpoint decision is taken; and an epoch starts only
\* after the checkpoint decision of the epoch before it.
C3_PhaseOrder ==
    /\ \A i \in 1..(Len(PhaseTrace) - 1) :
          LET x == PhaseTrace[i]
              y == PhaseTrace[i + 1]
          IN \/ x.epoch = y.epoch /\ PhaseRank(x) <= PhaseRank(y)
             \/ /\ y.epoch = x.epoch + 1
                /\ y.ev = "epoch_start"
                /\ x.ev \in {"ckpt_decision", "torch.save"}
    /\ \A e \in 1..epoch : EventsOf({"ckpt_decision"}, e) /= {} => EpochComplete(e)
    /\ \A e \in 1..(epoch - 1) : EventsOf({"ckpt_decision"}, e) /= {}

\* C3 witness: a finished run of two epochs or more in which every phase acts.
C3_Witness ==
    /\ pc = "done"
    /\ cfg.num_epochs >= 2
    /\ ~cfg.shape.detector
    /\ Len(TrainBatches(loaders)) >= 2
    /\ cfg.val.validation /\ Len(ValBatches(loaders)) >= 1
    /\ cfg.sched.use_scheduler
    /\ cfg.save_losses

\* The batches of the loader a batch loop iterates.
LoaderOf(loop) == IF loop = "train" THEN TrainBatches(loaders) ELSE ValBatches(loaders)

\* The channel count main reads from batch b of a loader.
ChannelsSeen(loop, b) ==
    ShapeAt(BatchShape(cfg, LoaderOf(loop)[b]), cfg.shape.channel_axis)

\* In train.main every forward pass and every optimizer step is on a batch whose
\* X.shape[channel_axis] equals the model's num_channels, and an AssertionError
\* ends main before any forward pass or optimizer step on the offending batch.
TrainForwardOnlyOnMatch ==
    \A i \in DOMAIN trace :
        /\ trace[i].ev \in {"forward", "optimizer_step"} =>
              ChannelsSeen(trace[i].loop, trace[i].b) = cfg.shape.model_num_channels
        /\ trace[i].ev = "AssertionError" =>
              /\ i = Len(trace)
              /\ pc = "crashed"
              /\ ChannelsSeen(trace[i].loop, trace[i].b) /= cfg.shape.model_num_channels
              /\ \A j \in DOMAIN trace :
                    (trace[j].loop = trace[i].loop /\ trace[j].epoch = trace[i].epoch
                     /\ trace[j].b = trace[i].b)
                        => trace[j].ev \notin {"zero_grad", "forward", "backward",
                                               "optimizer_step", "calc_metrics"}

\* The registries as lines 30-42 write them, had both attribute lookups
\* succeeded: the only way to reach the body of predict.main.
RegistriesAsWritten ==
    [status |-> "ok", MODELS |-> PredictModule.MODELS,
     SAMPLE_GENERATORS |-> { "CNNLSTM" }, PRED_SAVE_FUNCTIONS |-> { "CNNLSTM" }]

\* The channel count predict.main reads from its k-th sample.
PredictChannelsSeen(inp, k) == ShapeAt(inp.samples[k], inp.channel_axis)

\* In a sequence of calls of predict.py the model runs only on a sample whose
\* X.shape[channel_axis] equals the model's num_channels, and an AssertionError
\* is the last call and comes before any forward pass on the offending sample.
PredictForwardOnlyOnMatchIn(inp, evs) ==
    \A i \in DOMAIN evs :
        /\ evs[i].ev \in {"forward", "save_preds"} =>
              /\ evs[i].sample_idx \in DOMAIN inp.samples
              /\ PredictChannelsSeen(inp, evs[i].sample_idx) = inp.model_num_channels
        /\ evs[i].ev = "AssertionError" =>
              /\ i = Len(evs)
              /\ PredictChannelsSeen(inp, evs[i].sample_idx) /= inp.model_num_channels
              /\ \A j \in DOMAIN evs :
                    evs[j].sample_idx = evs[i].sample_idx
                        => evs[j].ev \notin {"forward", "save_preds"}

\* The body of predict.main on every input, and the script as it runs.
PredictForwardOnlyOnMatch ==
    \A inp \in PredictInputs :
        /\ PredictForwardOnlyOnMatchIn(inp, PredictMain(inp, RegistriesAsWritten))
        /\ PredictForwardOnlyOnMatchIn(inp, PredictScript(inp))

\* C9: in train.main (training and validation loops of a non-detector model)
\* and in predict.main the forward pass runs on a batch only if
\* X.shape[channel_axis] equals the model's num_channels; on a mismatch an
\* AssertionError ends main before the forward pass and, in training, before
\* any optimizer step for that batch.
C9_ForwardOnlyOnMatch ==
    /\ TrainForwardOnlyOnMatch
    /\ PredictForwardOnlyOnMatchIn(prun.inputs, prun.trace)
    /\ PredictForwardOnlyOnMatch

\* C9 witness: the assertion ended train.main on a batch of the second epoch's
\* validation loop or of a training loop that had already stepped the optimizer
\* on an earlier batch.
C9_Witness ==
    /\ pc = "crashed"
    /\ err = "AssertionError"
    /\ trace[Len(trace)].ev = "AssertionError"
    /\ ChannelsSeen(trace[Len(trace)].loop, trace[Len(trace)].b) /= cfg.shape.model_num_channels
    /\ ChannelsSeen(trace[Len(trace)].loop, trace[Len(trace)].b) /= -1

IsEpochStart(x) == x.ev = "epoch_start"

\* The epochs main has started, in the order it started them.
EpochStarts == SelectSeq(trace, IsEpochStart)

\* The epochs started so far are 1, 2, ..., in that order and never more than
\* num_epochs; a run that reaches the final log has run exactly the epochs
\* 1..num_epochs, each to its checkpoint decision; with num_epochs = 0 no epoch
\* runs, no loss line is appended and no checkpoint is written.
EpochsInOrder ==
    /\ Len(EpochStarts) = epoch
    /\ \A i \in DOMAIN EpochStarts : EpochStarts[i].epoch = i
    /\ epoch <= cfg.num_epochs
    /\ pc = "done" =>
          /\ epoch = cfg.num_epochs
          /\ trace[Len(trace)].ev = "done"
          /\ \A e \in 1..cfg.num_epochs : EventsOf({"ckpt_decision"}, e) /= {}
    /\ cfg.num_epochs = 0 =>
          /\ pc \in {"start", "loop", "done"}
          /\ train_lines = <<>> /\ val_lines = <<>> /\ saved = <<>>

\* C10: train.main runs exactly the epochs 1..num_epochs in increasing order and
\* then reaches the final log, unless an exception ends it; with num_epochs = 0
\* it runs no epoch, appends no loss line and writes no checkpoint.
C10_RunsAllEpochs == []EpochsInOrder /\ <>Terminated

\* C10 witness: a run of two epochs or more that reached the final log.
C10_Witness ==
    /\ pc = "done"
    /\ cfg.num_epochs >= 2
    /\ Len(EpochStarts) = cfg.num_epochs

\* Line 468 is the next statement: a scheduler is used and its step takes a metric.
AtMetricStep ==
    pc = "sched" /\ cfg.sched.use_scheduler /\ cfg.sched.requires_metrics

\* The epochs in which a scheduler that takes a metric was stepped.
MetricStepEpochs ==
    {e \in 1..epoch : cfg.sched.requires_metrics /\ EventsOf({"scheduler_step"}, e) /= {}}

\* A step that line 468 completed was given a metric computed by the validation
\* phase of its own epoch.
CompletedMetricStepsFresh ==
    /\ \A e \in MetricStepEpochs :
          /\ cfg.val.validation
          /\ EventsOf({"calc_metrics", "evaluate"}, e) /= {}
          /\ \A i \in EventsOf({"calc_metrics", "evaluate"}, e) :
                \A j \in EventsOf({"scheduler_step"}, e) : i < j
    /\ (pc = "losses" /\ epoch \in MetricStepEpochs) =>
          /\ MetricLookup(metrics, cfg.sched.scheduler_metric) = "ok"
          /\ metrics.epoch = epoch

\* C11: whenever train.main steps a scheduler that requires metrics, with the
\* default --scheduler-metric "validation_loss", metrics[scheduler_metric] is
\* defined and was computed during the validation phase of the same epoch,
\* whatever --validation is and whether the model is a detector or not.
C11_SchedulerMetricDefined ==
    (AtMetricStep /\ cfg.sched.scheduler_metric = "validation_loss") =>
        /\ MetricLookup(metrics, cfg.sched.scheduler_metric) = "ok"
        /\ metrics.epoch = epoch

\* C12: in train.main no logging.info call is executed before get_args(...)
\* has been called.
C12_NoLogBeforeGetArgs ==
    \A i \in DOMAIN trace :
        trace[i].ev = "logging.info" => \E j \in 1..(i - 1) : trace[j].ev = "get_args"

\* C12 witness: a finished run that logged the loaded checkpoint and the class
\* weights on its way to the loop, and a checkpoint in it.
C12_Witness ==
    /\ pc = "done"
    /\ cfg.opts.model_filepath /\ cfg.opts.use_class_weights
    /\ EventsOf({"get_args"}, 0) /= {}
    /\ Cardinality(EventsOf({"logging.info"}, 0)) = 5
    /\ EventsOf({"logging.info"}, 1) /= {}

\* The datasets whose items are dicts with the keys X and Y.
DictDatasets == {"EurosatDataset", "XYZTileDataset", "ConvLSTMCDataset"}

\* The batches on which main evaluated the assertion of lines 385 or 428.
AssertedBatches ==
    {i \in DOMAIN trace : trace[i].ev \in {"assert_ok", "AssertionError"}}

\* With the default --channel-axis the number compared with num_channels is the
\* number of channels of the loaded images, for the datasets named.
DefaultAxisIsChannelsFor(datasets) ==
    (cfg.shape.channel_axis = DEFAULT_CHANNEL_AXIS /\ cfg.shape.dataset \in datasets) =>
        \A i \in AssertedBatches :
            ChannelsSeen(trace[i].loop, trace[i].b) = cfg.shape.channels

\* The single-image datasets: there X.shape[1] is the channel dimension.
DefaultAxisIsChannelsOfImages ==
    DefaultAxisIsChannelsFor({"EurosatDataset", "XYZTileDataset"})

\* C14: with the default --channel-axis (1) the dimension train.main compares
\* with the model's num_channels is the image-channel dimension of the batch for
\* EurosatDataset, XYZTileDataset and ConvLSTMCDataset: X.shape[1] is the number
\* of channels of the loaded images, never the number of frames of a sequence.
C14_DefaultAxisIsChannels == DefaultAxisIsChannelsFor(DictDatasets)

\* The float main accumulates over the first n batches of epoch e, as
\* `train_loss += loss.item()` and `validation_loss += loss.item()` do from 0.0.
RECURSIVE TrainLossSum(_, _)
TrainLossSum(e, n) ==
    IF n = 0 THEN DFromInt(0) ELSE FloatAdd(TrainLossSum(e, n - 1), TrainLossOf(e, n))

RECURSIVE ValLossSum(_, _)
ValLossSum(e, n) ==
    IF n = 0 THEN DFromInt(0) ELSE FloatAdd(ValLossSum(e, n - 1), ValLossOf(e, n))

\* C15: for a non-detector model with save_losses enabled, after k completed
\* epochs the train-loss file and the validation-loss file hold exactly k lines
\* each; line e is the sum of the per-batch training losses of epoch e, and the
\* sum of the per-batch validation losses of epoch e (0.0 without validation);
\* no loss of an earlier epoch is carried into a line.
C15_LossLines ==
    (~cfg.shape.detector /\ cfg.save_losses) =>
        /\ pc \in {"loop", "done"} => Len(train_lines) = epoch
        /\ Len(train_lines) \in {epoch - 1, epoch} \cap Nat
        /\ Len(val_lines) = Len(train_lines)
        /\ \A e \in DOMAIN train_lines :
              train_lines[e] = TrainLossSum(e, Len(TrainBatches(loaders)))
        /\ \A e \in DOMAIN val_lines :
              val_lines[e] = IF cfg.val.validation
                             THEN ValLossSum(e, Len(ValBatches(loaders)))
                             ELSE DFromInt(0)

\* C15 witness: a finished run of two epochs or more whose epochs had two
\* training batches or more and a validation batch, the lines of the first two
\* epochs differing.
C15_Witness ==
    /\ pc = "done"
    /\ ~cfg.shape.detector /\ cfg.save_losses
    /\ cfg.num_epochs >= 2
    /\ Len(train_lines) = cfg.num_epochs
    /\ Len(TrainBatches(loaders)) >= 2
    /\ cfg.val.validation /\ Len(ValBatches(loaders)) >= 1
    /\ train_lines[1] /= train_lines[2]
    /\ val_lines[1] /= val_lines[2]
    /\ val_lines[1] /= DFromInt(0)

\* The elements of a sequence.
Range(seq) == {seq[i] : i \in DOMAIN seq}

\* C16: in train.main, for 0 <= val_percent <= 1, num_train + num_validation =
\* len(dataset); with validation enabled num_validation is the floor of the
\* float len(dataset) * val_percent, without it (num_train, num_validation) =
\* (len(dataset), 0); the training and validation sets are disjoint and together
\* cover the dataset; and the validation loader never shuffles.
C16_SplitPartition ==
    pc \notin {"start", "idle"} =>
        LET nv == loaders.num_validation
            train_set == loaders.train_loader.dataset
            validation_set == loaders.validation_loader.dataset
            product == FloatMulInt(cfg.dataset_len, cfg.val.val_percent)
        IN /\ loaders.num_train + nv = cfg.dataset_len
           /\ loaders.num_train >= 0 /\ nv >= 0
           /\ cfg.val.validation =>
                 /\ DLeq(DFromInt(nv), product)
                 /\ ~DLeq(DFromInt(nv + 1), product)
           /\ ~cfg.val.validation => (loaders.num_train = cfg.dataset_len /\ nv = 0)
           /\ Len(train_set) = loaders.num_train
           /\ Len(validation_set) = nv
           /\ Cardinality(Range(train_set)) = Len(train_set)
           /\ Cardinality(Range(validation_set)) = Len(validation_set)
           /\ Range(train_set) \cap Range(validation_set) = {}
           /\ Range(train_set) \cup Range(validation_set) = 0..(cfg.dataset_len - 1)
           /\ ~loaders.validation_loader.shuffle

\* C16 witness: a finished run over five samples with --val-percent 0.6 and a
\* shuffling training loader: three validation samples, although the product
\* of 5 and the float 0.6, taken exactly, is below 3.
C16_Witness ==
    /\ pc = "done"
    /\ cfg.val.validation /\ cfg.dataset_len = 5
    /\ cfg.opts.shuffle /\ cfg.opts.seed = 2
    /\ loaders.num_validation = 3 /\ loaders.num_train = 2
    /\ DCmp(DMulInt(cfg.val.val_percent, cfg.dataset_len), DFromInt(3)) < 0
    /\ loaders.train_loader.shuffle

---------------------------------------------------------------------------
(* Properties of the datasets *)

\* The sample a returned item was built from.
ItemSample == ds.samples[item.idx + 1]

\* C1: with use_data_aug, ConvLSTMCDataset.__getitem__ draws the transform index
\* (and, with use_rotation, the angle) once per call, and every frame of the
\* returned sequence is the loaded frame under that one (index, angle) pair: no
\* two frames of a sample differ in the transform they received.
C1_SynchronizedAugmentation ==
    (item.kind = "ConvLSTMCDataset" /\ item.status = "ok" /\ ds.use_data_aug) =>
        LET files == sort_filenames(ItemSample.filenames)
        IN /\ Len(item.draw.drawn) = (IF ds.use_rotation THEN 2 ELSE 1)
           /\ Len(item.X) = Len(files)
           /\ \A i \in DOMAIN item.X :
                 item.X[i] = spatial_transform(Load(PathJoin(ItemSample.dirpath, files[i])),
                                               item.draw.angle, item.draw.idx)
           /\ \A i, j \in DOMAIN item.X :
                 item.X[i].rows = item.X[j].rows /\ item.X[i].angle = item.X[j].angle

\* C1 witness: a sequence of two frames or more, returned rotated by an angle
\* other than zero.
C1_Witness ==
    /\ item.kind = "ConvLSTMCDataset"
    /\ item.status = "ok"
    /\ ds.use_data_aug
    /\ Len(item.X) >= 2
    /\ item.draw.idx = 3
    /\ item.X[1].angle /= 0

\* The indexed samples with a truthy (t = TRUE) or falsy label.
SamplesLabelled(t) == {i \in DOMAIN ds.samples : Truthy(ds.samples[i].label) = t}

\* The float w lies within 2^-j of the quotient n / d.
NearQuotient(w, n, d, j) ==
    DLeq(DDist(DMulInt(w, d), DFromInt(n)), Dyadic(BFromInt(d), 0 - j))

\* What is common to both readings of C5: the dataset to which it applies and
\* the counts.
WeightedDataset ==
    /\ ds.kind \in {"XYZTileDataset", "ConvLSTMCDataset"}
    /\ ds.status = "ok"
    /\ ~ds.use_sqrt_weights

CountsMatchSamples ==
    /\ ds.num_pos = Cardinality(SamplesLabelled(TRUE))
    /\ ds.num_neg = Cardinality(SamplesLabelled(FALSE))
    /\ ds.num_pos + ds.num_neg = Len(ds.samples)
    /\ Len(ds.class_weights) = 2
    /\ ~ds.class_weights[1].sqrt /\ ~ds.class_weights[2].sqrt

\* C5 as stated: without use_sqrt_weights, class_weights = [neg_w, pos_w] with
\* neg_w = num_pos / (num_pos + num_neg) and pos_w = num_neg / (num_pos + num_neg),
\* the counts being those of the indexed samples with truthy and falsy label;
\* the weights sum to 1 and the class with fewer samples has the larger weight.
\* The quotients and the sum are read as Python computes them.
C5_ClassWeightsExact ==
    WeightedDataset =>
        LET neg_w == ds.class_weights[1].value
            pos_w == ds.class_weights[2].value
        IN /\ CountsMatchSamples
           /\ neg_w = FloatDiv(ds.num_pos, ds.num_pos + ds.num_neg)
           /\ pos_w = FloatDiv(ds.num_neg, ds.num_pos + ds.num_neg)
           /\ FloatAdd(neg_w, pos_w) = DFromInt(1)
           /\ ds.num_pos < ds.num_neg => DCmp(neg_w, pos_w) < 0
           /\ ds.num_neg < ds.num_pos => DCmp(pos_w, neg_w) < 0
           /\ ds.num_pos = ds.num_neg => pos_w = neg_w

\* C5, amended: a dataset that indexes at least one sample has, without
\* use_sqrt_weights, class_weights = [neg_w, pos_w] with
\* neg_w = 1 - num_neg / (num_pos + num_neg) and
\* pos_w = 1 - num_pos / (num_pos + num_neg) in float arithmetic, the counts
\* being those of the indexed samples with truthy and falsy label; neg_w is
\* within 2^-53 of num_pos / (num_pos + num_neg), pos_w within 2^-53 of
\* num_neg / (num_pos + num_neg), their float sum within 2^-52 of 1; the class
\* with fewer samples has the strictly larger weight and equal counts give
\* equal weights.
C5_ClassWeights ==
    WeightedDataset =>
        LET neg_w == ds.class_weights[1].value
            pos_w == ds.class_weights[2].value
            total == ds.num_pos + ds.num_neg
        IN /\ CountsMatchSamples
           /\ total > 0
           /\ NearQuotient(neg_w, ds.num_pos, total, DoublePrecision)
           /\ NearQuotient(pos_w, ds.num_neg, total, DoublePrecision)
           /\ NearQuotient(FloatAdd(neg_w, pos_w), 1, 1, DoublePrecision - 1)
           /\ ds.num_pos < ds.num_neg => DCmp(neg_w, pos_w) < 0
           /\ ds.num_neg < ds.num_pos => DCmp(pos_w, neg_w) < 0
           /\ ds.num_pos = ds.num_neg => pos_w = neg_w

\* C5 witness: a dataset of two positive and nine negative samples, whose
\* weights are not the float quotients and do not add up to 1.
C5_Witness ==
    /\ WeightedDataset
    /\ ds.num_pos = 2
    /\ ds.num_neg = 9
    /\ ds.class_weights[1].value /= FloatDiv(2, 11)
    /\ FloatAdd(ds.class_weights[1].value, ds.class_weights[2].value) /= DFromInt(1)

\* path is dir_path or a directory below it.
IsUnder(path, root) ==
    \/ path = root
    \/ Len(path) > Len(root) + 1 /\ SubSeq(path, 1, Len(root) + 1) = root \o <<"/">>

\* The directories in the tree of dir_path that have no subdirectory.
LeafDirs ==
    {path \in DOMAIN world.tree :
        /\ IsUnder(path, NormPath(world.manifest.dir_path))
        /\ world.tree[path].dirnames = <<>>}

\* The path os.walk reports for a directory: dir_path as it was given, and
\* the joined path below it.
ReportedPath(path) ==
    IF path = NormPath(world.manifest.dir_path) THEN world.manifest.dir_path ELSE path

\* The categories whose key occurs in dirpath and whose value is v.
MatchingCategories(dirpath, v) ==
    {k \in DOMAIN world.manifest.categories :
        /\ IsSubstring(world.manifest.categories[k].key, dirpath)
        /\ world.manifest.categories[k].value = v}

CategoryValues ==
    {world.manifest.categories[k].value : k \in DOMAIN world.manifest.categories}

\* C6: every record of XYZTileDataset.samples names a directory of the tree of
\* dir_path that has no subdirectories, a file of it and the value of a category
\* whose key is a substring of the directory path; and each pair of a file of
\* such a directory and a category matching it has exactly one record.
C6_TileSamples ==
    (ds.kind = "XYZTileDataset" /\ ds.status = "ok") =>
        /\ \A i \in DOMAIN ds.samples :
              LET r == ds.samples[i]
              IN /\ NormPath(r.dirpath) \in LeafDirs
                 /\ r.dirpath = ReportedPath(NormPath(r.dirpath))
                 /\ \E j \in DOMAIN world.tree[NormPath(r.dirpath)].filenames :
                       world.tree[NormPath(r.dirpath)].filenames[j] = r.filename
                 /\ MatchingCategories(r.dirpath, r.label) /= {}
        /\ \A path \in LeafDirs, v \in CategoryValues :
              \A j \in DOMAIN world.tree[path].filenames :
                  Cardinality({i \in DOMAIN ds.samples :
                                  ds.samples[i] = [dirpath |-> ReportedPath(path),
                                                   filename |-> world.tree[path].filenames[j],
                                                   label |-> v]})
                      = Cardinality(MatchingCategories(ReportedPath(path), v))

\* C6 witness: a dataset of three records or more, among them one of a nested
\* directory.
C6_Witness ==
    /\ ds.kind = "XYZTileDataset"
    /\ ds.status = "ok"
    /\ Len(ds.samples) >= 3
    /\ \E i \in DOMAIN ds.samples : Len(ds.samples[i].dirpath) >= 5

\* ConvLSTMCDataset.samples holds one sample per pair of a directory without
\* subdirectories and a category matching it, with all the files of the directory.
ConvLSTMCSamplesIndexed ==
    (ds.kind = "ConvLSTMCDataset" /\ ds.status = "ok") =>
        /\ \A i \in DOMAIN ds.samples :
              LET r == ds.samples[i]
              IN /\ NormPath(r.dirpath) \in LeafDirs
                 /\ r.filenames = world.tree[NormPath(r.dirpath)].filenames
                 /\ MatchingCategories(r.dirpath, r.label) /= {}
        /\ \A path \in LeafDirs, v \in CategoryValues :
              Cardinality({i \in DOMAIN ds.samples :
                              /\ ds.samples[i].dirpath = ReportedPath(path)
                              /\ ds.samples[i].label = v})
                  = Cardinality(MatchingCategories(ReportedPath(path), v))

\* C7 (as claimed): ConvLSTMCDataset indexes one sample per (leaf directory,
\* matching category) pair with all files of the directory, and for every index
\* __getitem__ returns X with one frame per file of that directory and Y equal to
\* the category's label.
C7_OneFramePerFile ==
    /\ ConvLSTMCSamplesIndexed
    /\ item.kind = "ConvLSTMCDataset" =>
          /\ item.status = "ok"
          /\ Len(item.X) = Len(world.tree[NormPath(ItemSample.dirpath)].filenames)
          /\ item.Y = ItemSample.label

\* The regions of the sample a target was built from.
ItemRegions == ItemSample.annotations.regions

\* The tensor element b is x * t / o to within the rounding of a float32: the
\* relative error is at most 2^-23.
NearScaled(b, x, t, o) ==
    DLeq(DDist(DMulInt(b, o), DFromInt(x * t)),
         Dyadic(BFromInt(x * t), 1 - SinglePrecision))

\* C8: for annotations with n regions, make_bounding_box_from_annotation returns
\* n boxes and n labels in region order, every label 1, box i being
\* [x*rw, y*rh, (x+width)*rw, (y+height)*rh] with rw, rh the ratios of the
\* transformed to the original width and height; so x_min <= x_max and
\* y_min <= y_max when width and height are not negative, and a box inside the
\* original image lies inside the transformed image.
C8_BoundingBoxes ==
    (item.kind = "XYZObjectDetectionDatasetTwo" /\ ~ItemSample.annotations.none) =>
        LET ow == ItemSample.size[1]
            oh == ItemSample.size[2]
            tw == INPUT_SIZE[1]
            th == INPUT_SIZE[2]
        IN /\ Len(item.target.boxes) = Len(ItemRegions)
           /\ Len(item.target.labels) = Len(ItemRegions)
           /\ \A i \in DOMAIN ItemRegions :
                 LET r == ItemRegions[i]
                     box == item.target.boxes[i]
                 IN /\ item.target.labels[i] = 1
                    /\ Len(box) = 4
                    /\ box[1] = ToFloat32(FloatMulInt(r.x, FloatDiv(tw, ow)))
                    /\ box[2] = ToFloat32(FloatMulInt(r.y, FloatDiv(th, oh)))
                    /\ box[3] = ToFloat32(FloatMulInt(r.x + r.width, FloatDiv(tw, ow)))
                    /\ box[4] = ToFloat32(FloatMulInt(r.y + r.height, FloatDiv(th, oh)))
                    /\ NearScaled(box[1], r.x, tw, ow)
                    /\ NearScaled(box[2], r.y, th, oh)
                    /\ NearScaled(box[3], r.x + r.width, tw, ow)
                    /\ NearScaled(box[4], r.y + r.height, th, oh)
                    /\ r.width >= 0 => DLeq(box[1], box[3])
                    /\ r.height >= 0 => DLeq(box[2], box[4])
                    /\ (/\ r.x >= 0 /\ r.y >= 0 /\ r.width >= 0 /\ r.height >= 0
                        /\ r.x + r.width <= ow /\ r.y + r.height <= oh)
                          => /\ DLeq(DFromInt(0), box[1]) /\ DLeq(box[3], DFromInt(tw))
                             /\ DLeq(DFromInt(0), box[2]) /\ DLeq(box[4], DFromInt(th))

\* C8 witness: a target of two boxes, the first covering an original image of
\* 25 x 41 pixels: its far corner is a hair beyond 224 as Python floats and is
\* 224 in the tensor.
C8_Witness ==
    /\ item.kind = "XYZObjectDetectionDatasetTwo"
    /\ ~ItemSample.annotations.none
    /\ Len(item.target.boxes) = 2
    /\ ItemSample.size = <<25, 41>>
    /\ ItemRegions[1] = Region(0, 0, 25, 41)
    /\ ItemRegions[2] = Region(1, 0, 1, 2)
    /\ DCmp(FloatMulInt(25, FloatDiv(INPUT_SIDE, 25)), DFromInt(INPUT_SIDE)) > 0
    /\ item.target.boxes[1][3] = DFromInt(INPUT_SIDE)

\* The directories "**" reaches from dir_path: those under it with no hidden
\* name on the way down.
VisibleDirs ==
    LET root == NormPath(world.manifest.dir_path)
    IN {path \in DOMAIN world.tree :
           /\ IsUnder(path, root)
           /\ \A i \in (Len(root) + 1)..(Len(path) - 1) :
                 path[i] = "/" => path[i + 1] /= "."}

\* The entries of the visible directories whose names end in .tif.
TifPaths ==
    UNION { { PathJoin(path, name) :
                name \in { n \in Range(world.tree[path].dirnames \o world.tree[path].filenames) :
                             MatchesTif(n) } } :
            path \in VisibleDirs }

\* The name of the directory an entry of the tree lies in.
ParentNames(filepath) ==
    { name \in UNION { Range(world.tree[p].dirnames) : p \in DOMAIN world.tree }
             \cup { NormPath(world.manifest.dir_path) } :
        \E path \in DOMAIN world.tree :
            /\ \E n \in Range(world.tree[path].dirnames \o world.tree[path].filenames) :
                  filepath = PathJoin(path, n)
            /\ \/ path = name
               \/ /\ Len(path) > Len(name)
                  /\ SubSeq(path, Len(path) - Len(name), Len(path)) = <<"/">> \o name }

\* EurosatDataset.filepaths lists the .tif entries below dir_path, each once.
EurosatFilepathsGlobbed ==
    ds.kind = "EurosatDataset" =>
        /\ Range(ds.filepaths) = TifPaths
        /\ Cardinality(TifPaths) = Len(ds.filepaths)

\* Where EurosatDataset.__getitem__ returns, Y is the category value of the
\* parent directory's name; it raises KeyError exactly when that name is no
\* key of categories.
EurosatReturnedLabelled ==
    item.kind = "EurosatDataset" =>
        LET parents == ParentNames(ds.filepaths[item.idx + 1])
        IN /\ Cardinality(parents) = 1
           /\ item.status = "KeyError" <=> parents \cap CategoryKeys(ds.categories) = {}
           /\ item.status = "ok" =>
                 \E k \in DOMAIN ds.categories :
                     /\ ds.categories[k].key \in parents
                     /\ item.Y = ds.categories[k].value

\* C17: for every index below len(EurosatDataset), __getitem__ returns a sample
\* whose Y is the categories value for the name of the parent directory of
\* filepaths[idx]; every recursively globbed .tif file under dir_path is
\* indexable in this way.
C17_EurosatIndexable ==
    /\ EurosatFilepathsGlobbed
    /\ item.kind = "EurosatDataset" =>
          /\ item.status = "ok"
          /\ \E k \in DOMAIN ds.categories :
                /\ ds.categories[k].key \in ParentNames(ds.filepaths[item.idx + 1])
                /\ item.Y = ds.categories[k].value

\* The images of the item returned: the tile, or the frames of the sequence.
ItemImages ==
    IF item.kind = "ConvLSTMCDataset" THEN Range(item.X) ELSE { item.X }

\* C18: in XYZTileDataset and ConvLSTMCDataset with use_data_aug set, the
\* transform index is 0, 1 or 2 and no image is rotated when use_rotation is
\* not set; when it is set the index is in 0..3 and the angle drawn, and the
\* angle any image is rotated by, lies in -MAX_ANGLE..MAX_ANGLE = -30..30.
C18_TransformRange ==
    (item.kind \in {"XYZTileDataset", "ConvLSTMCDataset"} /\ ds.use_data_aug) =>
        IF ~ds.use_rotation
        THEN /\ item.draw.idx \in {0, 1, 2}
             /\ Len(item.draw.drawn) = 1
             /\ \A image \in ItemImages : image.angle = 0
        ELSE /\ item.draw.idx \in 0..3
             /\ MAX_ANGLE = 30
             /\ item.draw.angle \in (0 - 30)..30
             /\ \A image \in ItemImages :
                   /\ image.angle \in (0 - 30)..30
                   /\ image.angle /= 0 => item.draw.idx = 3

\* A sequence of three frames, each rotated by the largest angle one way.
C18_Witness ==
    /\ item.kind = "ConvLSTMCDataset"
    /\ item.status = "ok"
    /\ ds.use_data_aug
    /\ ds.use_rotation
    /\ item.draw.idx = 3
    /\ item.draw.angle = 0 - MAX_ANGLE
    /\ Len(item.X) = 3
    /\ \A i \in 1..3 : item.X[i].angle = 0 - 30

\* The random numbers a call on the dataset ds may draw.
DrawsOf(d) ==
    IF d.kind = "EurosatDataset" THEN EurosatDraws(d) ELSE Draws(d)

\* dataset[idx] for the three classification datasets.
GetItemOf(d, idx, draw) ==
    IF d.kind = "EurosatDataset" THEN EurosatGetItem(world, d, idx, draw)
    ELSE IF d.kind = "XYZTileDataset" THEN XYZTileGetItem(d, idx, draw)
    ELSE ConvLSTMCGetItem(d, idx, draw)

\* The pixels of the file an image was read from, as the dataset delivers them
\* before any augmentation.
PixelsAsRead(kind, image) ==
    IF kind = "EurosatDataset" THEN preprocess(Load(image.path)).rows
    ELSE Load(image.path).rows

\* C19: when use_data_aug is false, __getitem__ of EurosatDataset,
\* XYZTileDataset and ConvLSTMCDataset flips and rotates nothing and draws no
\* random number, and any other call with the same index gives the same X and
\* the same Y.
C19_NoAugDeterministic ==
    (item.kind \in {"EurosatDataset", "XYZTileDataset", "ConvLSTMCDataset"}
     /\ ~ds.use_data_aug) =>
        /\ item.draw.drawn = <<>>
        /\ item.status = "ok" =>
              \A image \in ItemImages :
                  /\ image.angle = 0
                  /\ image.rows = PixelsAsRead(item.kind, image)
        /\ \A draw \in DrawsOf(ds) :
              LET again == GetItemOf(ds, item.idx, draw)
              IN /\ again.status = item.status
                 /\ again.X = item.X
                 /\ again.Y = item.Y
                 /\ again.draw.drawn = <<>>

\* A EuroSAT tile of category p returned without augmentation.
C19_Witness ==
    /\ item.kind = "EurosatDataset"
    /\ item.status = "ok"
    /\ ~ds.use_data_aug
    /\ item.Y = 1
    /\ item.X.path = <<"d", "/", "p", "/", "1", ".", "t", "i", "f">>
    /\ item.X.rows[1][1] = ToFloat32(FloatDiv(1, MAX_PIX_VALUE))
    /\ item.draw.drawn = <<>>

\* The files of the leaf directory that os.walk reports as dirpath.
LeafFiles(dirpath) ==
    UNION { Range(world.tree[path].filenames) :
            path \in { p \in LeafDirs : ReportedPath(p) = dirpath } }

\* The annotations of the entries whose key occurs in dirpath.
MatchingAnnotations(dirpath) ==
    { ds.annotations_dict[k].annotation :
        k \in { j \in DOMAIN ds.annotations_dict :
                  IsSubstring(ds.annotations_dict[j].tile_idx, dirpath) } }

\* C20: with pos_only true, XYZObjectDetectionDataset.samples holds no record
\* with a falsy label; every record carries the annotation of an entry of the
\* annotations file whose key is a substring of the record's dirpath and the
\* value of a category whose key is a substring of that dirpath; and a leaf
\* directory whose path contains no annotation key has no record.
C20_AnnotatedSamples ==
    (ds.kind = "XYZObjectDetectionDataset" /\ ds.pos_only) =>
        /\ \A i \in DOMAIN ds.samples :
              LET r == ds.samples[i]
              IN /\ Truthy(r.label)
                 /\ r.annotation \in MatchingAnnotations(r.dirpath)
                 /\ MatchingCategories(r.dirpath, r.label) /= {}
                 /\ r.filename \in LeafFiles(r.dirpath)
        /\ \A path \in LeafDirs :
              MatchingAnnotations(ReportedPath(path)) = {} =>
                  \A i \in DOMAIN ds.samples : ds.samples[i].dirpath /= ReportedPath(path)

\* Two annotation keys occur in the path of the positive directory, which has
\* two records per file, while the negative directory, which an annotation key
\* matches too, has none.
C20_Witness ==
    /\ ds.kind = "XYZObjectDetectionDataset"
    /\ ds.pos_only
    /\ world.tree = TreeTypical
    /\ world.manifest = DetManifest
    /\ Len(ds.annotations_dict) = 2
    /\ ds.annotations_dict[1].tile_idx = <<"/", "p">>
    /\ Len(ds.samples) = 6
    /\ ds.samples[1].annotation = Region(0, 1, 2, 1)
    /\ ds.samples[4].annotation = Region(1, 2, 3, 3)
    /\ MatchingAnnotations(<<"d", "/", "n">>) /= {}

\* The number of annotated regions of the sample the item was made from: none
\* for a negative tile, whose annotations is None.
ItemRegionCount ==
    IF ItemSample.annotations.none THEN 0 ELSE Len(ItemSample.annotations.regions)

\* The target of a negative tile and of a sample with one region or more has
\* boxes of shape (n, 4) and labels of shape (n).
TargetShapesOfAnnotated ==
    (item.kind = "XYZObjectDetectionDatasetTwo"
     /\ (ItemSample.annotations.none \/ ItemRegionCount >= 1)) =>
        /\ item.target.boxes_shape = << ItemRegionCount, 4 >>
        /\ item.target.labels_shape = << ItemRegionCount >>
        /\ Len(item.target.boxes) = ItemRegionCount
        /\ Len(item.target.labels) = ItemRegionCount

\* C21: for every sample of XYZObjectDetectionDatasetTwo the target returned has
\* boxes of shape (n, 4) and labels of shape (n), n being the number of
\* annotated regions; n is 0 both when annotations is None and when the
\* regions list is empty.
C21_TargetShapes ==
    item.kind = "XYZObjectDetectionDatasetTwo" =>
        /\ item.target.boxes_shape = << ItemRegionCount, 4 >>
        /\ item.target.labels_shape = << ItemRegionCount >>

\* The longest list of filenames whose every permutation is tried; a longer
\* list is tried under every exchange of two of its filenames and reversed.
MaxPermuted == 4

\* The orders in which the directory listing may have returned the filenames.
Reorderings(filenames) ==
    IF Len(filenames) <= MaxPermuted
    THEN { [i \in DOMAIN filenames |-> filenames[p[i]]] :
               p \in { q \in [DOMAIN filenames -> DOMAIN filenames] :
                           \A i, j \in DOMAIN filenames : q[i] = q[j] => i = j } }
    ELSE { [filenames EXCEPT ![i] = filenames[j], ![j] = filenames[i]] :
               i, j \in DOMAIN filenames }
         \cup { [i \in DOMAIN filenames |-> filenames[Len(filenames) + 1 - i]] }

\* The filename with exactly k smaller filenames of the sample before it in
\* lexicographic order.
FilenameOfRank(filenames, k) ==
    CHOOSE f \in Range(filenames) :
        Cardinality({ g \in Range(filenames) : StrLess(g, f) }) = k

\* dataset[idx] of the dataset whose sample idx stores its filenames in the
\* order given.
ConvLSTMCGetItemListed(d, idx, filenames, draw) ==
    ConvLSTMCGetItem([d EXCEPT !.samples[idx + 1].filenames = filenames], idx, draw)

\* C22: with data augmentation off, ConvLSTMCDataset.__getitem__ stacks the
\* frames of a sequence in ascending lexicographic order of their filenames,
\* each as it was loaded, and every permutation of the filenames the sample
\* stores yields the same X.
C22_OrderIndependent ==
    (item.kind = "ConvLSTMCDataset" /\ item.status = "ok" /\ ~ds.use_data_aug) =>
        /\ Len(item.X) = Len(ItemSample.filenames)
        /\ \A i \in DOMAIN item.X :
              item.X[i] = Load(PathJoin(ItemSample.dirpath,
                                        FilenameOfRank(ItemSample.filenames, i - 1)))
        /\ \A filenames \in Reorderings(ItemSample.filenames) :
              ConvLSTMCGetItemListed(ds, item.idx, filenames, item.draw).X = item.X

\* C22 witness: a sequence of three frames whose filenames the listing
\* returned in another order than the ascending one, returned in ascending
\* order.
C22_Witness ==
    /\ item.kind = "ConvLSTMCDataset"
    /\ item.status = "ok"
    /\ ~ds.use_data_aug
    /\ ItemSample.filenames = << <<"2">>, <<"1", "0">>, <<"1">> >>
    /\ Len(item.X) = 3
    /\ item.X[1].path = PathJoin(ItemSample.dirpath, <<"1">>)
    /\ item.X[2].path = PathJoin(ItemSample.dirpath, <<"1", "0">>)
    /\ item.X[3].path = PathJoin(ItemSample.dirpath, <<"2">>)

---------------------------------------------------------------------------
(* Properties of predict.py *)

\* An invocation on which nothing but the script itself can go wrong: the
\* default model, a checkpoint that loads, and samples whose channel count is
\* the model's.
PredictInputsBenign(inp) ==
    /\ inp.model = "CNNLSTM"
    /\ inp.checkpoint_ok
    /\ \A k \in DOMAIN inp.samples : PredictChannelsSeen(inp, k) = inp.model_num_channels

\* The positions of evs holding the call name for sample k.
PositionsOf(evs, name, k) ==
    { i \in DOMAIN evs : evs[i].ev = name /\ evs[i].sample_idx = k }

\* C4: a finished run of predict.py on --model-filepath and --data-dir has
\* loaded the checkpoint before any prediction and has, for the samples
\* 1, 2, ... of the generator in order, computed exactly one prediction each and
\* passed it to the save function, sample_idx counting from 1.
C4_PredictsEverySample ==
    (prun.pc \in {"done", "crashed"} /\ PredictInputsBenign(prun.inputs)) =>
        LET t == prun.trace
            n == Len(prun.inputs.samples)
        IN /\ prun.pc = "done"
           /\ \E l \in DOMAIN t :
                 /\ t[l].ev = "load_state_dict"
                 /\ \A i \in DOMAIN t : t[i].ev = "forward" => l < i
           /\ \A i \in DOMAIN t :
                 t[i].ev \in {"forward", "save_preds"} => t[i].sample_idx \in 1..n
           /\ \A k \in 1..n :
                 /\ Cardinality(PositionsOf(t, "forward", k)) = 1
                 /\ Cardinality(PositionsOf(t, "save_preds", k)) = 1
                 /\ \A i \in PositionsOf(t, "forward", k), j \in PositionsOf(t, "save_preds", k) :
                       /\ i < j
                       /\ \A m \in PositionsOf(t, "forward", k + 1) : j < m


\* In a sequence of calls no logging.info comes before the first get_args.
NoLogBeforeGetArgsIn(evs) ==
    \A i \in DOMAIN evs :
        evs[i].ev = "logging.info" => \E j \in 1..(i - 1) : evs[j].ev = "get_args"

\* The script as it runs never enters main, and so logs nothing.
PredictScriptLogsNothing ==
    /\ NoLogBeforeGetArgsIn(prun.trace)
    /\ \A i \in DOMAIN prun.trace : prun.trace[i].ev \notin {"logging.info", "get_args"}

\* C13: in predict.main no logging.info call is executed before get_args(...)
\* has been called: the calls of the body of main (lines 110-190), entered with
\* the registries as the module writes them, on the inputs of a run.
C13_PredictNoLogBeforeGetArgs ==
    prun.pc \in {"done", "crashed"} =>
        NoLogBeforeGetArgsIn(PredictMain(prun.inputs, RegistriesAsWritten))

=========================================================================
